---- MODULE Spec2Model ----
(***************************************************************************)
(* Model of the go-bsv-middleware authentication transport                 *)
(* (pkg/transport/http/transport.go), the auth middleware that drives it   *)
(* (Middleware.Handler, ResponseRecorder) and the two collaborators it     *)
(* calls: the wallet's nonce registry and the session manager.             *)
(*                                                                         *)
(* Every inbound HTTP request occupies one request slot.  The Go server    *)
(* runs each request on its own goroutine, so the slots advance            *)
(* independently; a step of a slot is one access to shared state (wallet   *)
(* registry, session store, clock) together with the thread-local code     *)
(* around it.                                                              *)
(*                                                                         *)
(* Abstractions.  A server nonce is its issue number 1, 2, ... (the n-th   *)
(* nonce the wallet created).  A client signature is named by the key      *)
(* that made it over exactly the message's key id and data ("forged" when  *)
(* it verifies under no key).  Time is a logical clock: the k-th call of   *)
(* time.Now() returns k.                                                   *)
(***************************************************************************)
EXTENDS Integers, Naturals, Sequences, FiniteSets, TLC

\* ------------------------------------------------------------------ bounds
\* Requests handled in one run, and requests in flight at the same time.
MaxRequests == 3
MaxInFlight == 2

Slots == 1..MaxInFlight

\* --------------------------------------------------------------- constants
AuthVersion == "0.1"

StatusOK == 200
StatusUnauthorized == 401
StatusForbidden == 403
StatusInternalServerError == 500

\* --------------------------------------------------------------- domains
\* Identity keys: two that parse as compressed secp256k1 points, one that
\* does not, and the empty string.
ValidKeys == {"k1", "k2"}
MalformedKey == "zz"
ServerIdentityKey == "server"

\* Client-chosen nonces (initialNonce, nonce).
ClientNonce == "cn"

\* yourNonce values that stand for "absent", for "well-formed base64 the
\* wallet never issued" and for "not valid base64".
NoNonce == 0
UnissuedNonce == -1
MalformedNonce == -2

\* Header values that do not decode: not base64, not hex.
NotBase64 == "!!"
NotHex == "xyz"

\* x-bsv-auth-request-id values: absent, valid base64, not valid base64.
RequestIDs == {"", "rid", "!!"}

\* Certificate lists of a certificateResponse: a list matching the requested
\* certifiers and type-to-fields map, a list that does not, the empty list.
\* ("nil" is the absent JSON field.)
CertificateLists == {"match", "mismatch", "empty"}

\* The key id and the data of a server signature.  keyID: the two nonces in
\* the order they are joined; data: the nonce pair of a handshake reply or the
\* response payload of a general reply.
NoKeyID == [order |-> "", serverNonce |-> NoNonce, peerNonce |-> ""]
NoData == [kind |-> "", requestID |-> "", status |-> 0, body |-> ""]
NoSignature == [by |-> "", keyID |-> NoKeyID, counterparty |-> "", data |-> NoData]

NoSession ==
  [isAuthenticated |-> FALSE, sessionNonce |-> NoNonce, peerNonce |-> "",
   peerIdentityKey |-> "", lastUpdate |-> 0]

NoMessage ==
  [messageType |-> "", version |-> "", identityKey |-> "", initialNonce |-> "",
   nonce |-> "", yourNonce |-> NoNonce, signature |-> "", certificates |-> "nil",
   requestID |-> ""]

\* An outbound AuthMessage (nil when messageType = "").
NoResponse ==
  [version |-> "", messageType |-> "", identityKey |-> "", initialNonce |-> NoNonce,
   nonce |-> NoNonce, yourNonce |-> "", hasYourNonce |-> FALSE,
   signature |-> NoSignature, requestedCertificates |-> FALSE]

\* The auth headers of a response ("" / NoNonce / NoSignature: not set).
NoHeaders ==
  [version |-> "", messageType |-> "", identityKey |-> "", nonce |-> NoNonce,
   yourNonce |-> "", hasYourNonce |-> FALSE, signature |-> NoSignature,
   requestID |-> "", hasRequestID |-> FALSE]

\* The server's own http.ResponseWriter: what has been sent to the client.
\* WriteHeader snapshots the header map; later header changes are not sent.
NewWriter ==
  [wroteHeader |-> FALSE, status |-> 0, sentHeaders |-> NoHeaders, body |-> <<>>]

\* ResponseRecorder{ResponseWriter: w, statusCode: http.StatusOK}
NewRecorder == [statusCode |-> StatusOK, body |-> "", hasBody |-> FALSE]

VARIABLES
  allowUnauthenticated,     \* Transport.allowUnauthenticated
  certificateRequirements,  \* Transport.certificateRequirements # nil
  onCertificatesReceived,   \* Transport.onCertificatesReceived # nil
  nonces,                   \* wallet: number of nonces issued (1..nonces)
  sessions,                 \* session manager: sessionNonce -> PeerSession
  identityKeyIndex,         \* session manager: peerIdentityKey -> sessionNonce
  clock,                    \* number of time.Now() calls so far
  started,                  \* number of requests received so far
  req,                      \* the request slots
  continuations,            \* log: sessions updated after authCallback ran
  accepted,                 \* log: yourNonces handleGeneralRequest accepted
  call                      \* a library call under study: arguments and results

vars ==
  <<allowUnauthenticated, certificateRequirements, onCertificatesReceived,
    nonces, sessions, identityKeyIndex, clock, started, req,
    continuations, accepted, call>>

\* The server itself: every variable of the transport and its collaborators.
server ==
  <<allowUnauthenticated, certificateRequirements, onCertificatesReceived,
    nonces, sessions, identityKeyIndex, clock, started, req,
    continuations, accepted>>

\* No library call is under study while the server runs.
NoCall == [fn |-> ""]

config == <<allowUnauthenticated, certificateRequirements, onCertificatesReceived>>

\* The two logs record what the handlers did; no handler reads them.
logs == <<continuations, accepted>>

\* ------------------------------------------------------------------ wallet
\* createNonce: a fresh nonce, remembered by the wallet.
CreateNonce == nonces + 1

\* verifyNonce: true iff the nonce was previously issued by this wallet.
VerifyNonce(n) == n \in 1..nonces

\* ec.PublicKeyFromString
PublicKeyFromString(k) == k \in ValidKeys

\* wallet.VerifySignature under (DefaultAuthProtocol, keyID, counterparty):
\* the signature verifies iff the counterparty's key made it over this key id
\* and data.
VerifySignature(counterparty, signature) == signature = counterparty

\* wallet.CreateSignature
CreateSignature(counterparty, keyID, data) ==
  [by |-> ServerIdentityKey, keyID |-> keyID, counterparty |-> counterparty,
   data |-> data]

\* A wallet call that takes a context returns an error when that context is
\* cancelled.
WalletAborts(ctx) == ctx.cancelled

\* context.Background(): never cancelled.
Background == [cancelled |-> FALSE]

\* req.Context(): cancelled when the inbound request r is.
RequestContext(r) == [cancelled |-> r.cancelled]

\* The context the transport hands to the wallet at each of its CreateNonce
\* and VerifyNonce calls; CreateSignature, VerifySignature and GetPublicKey
\* are called without one.
WalletContext(r, site) ==
  IF site = "HandleResponse.CreateNonce" THEN RequestContext(r) ELSE Background

\* --------------------------------------------------------- session manager
\* get(key): lookup accepts either index key.  A session nonce (base64 of 32
\* bytes) and an identity key (66 hex digits) never coincide, so the form of
\* the key decides the index that answers.
GetSessionByNonce(nonce) ==
  IF nonce \in DOMAIN sessions THEN sessions[nonce] ELSE NoSession

GetSessionByIdentityKey(identityKey) ==
  IF identityKey \in DOMAIN identityKeyIndex
    THEN sessions[identityKeyIndex[identityKey]]
    ELSE NoSession

\* add(session): inserts under both indices.
AddSession(session) ==
  /\ sessions' =
       [n \in DOMAIN sessions \cup {session.sessionNonce} |->
          IF n = session.sessionNonce THEN session ELSE sessions[n]]
  /\ identityKeyIndex' =
       [k \in DOMAIN identityKeyIndex \cup {session.peerIdentityKey} |->
          IF k = session.peerIdentityKey THEN session.sessionNonce
          ELSE identityKeyIndex[k]]

\* update(session): replaces the record, preserving both index entries.
UpdateSession(session) ==
  /\ sessions' =
       [n \in DOMAIN sessions |->
          IF n = session.sessionNonce THEN session ELSE sessions[n]]
  /\ UNCHANGED identityKeyIndex

\* ------------------------------------------------- net/http response writer
\* One request's response state: the server's writer w, the live header map
\* w.Header(), and the ResponseRecorder wrapped around w.
NewHTTP == [w |-> NewWriter, headers |-> NoHeaders, recorder |-> NewRecorder]

\* http.ResponseWriter.WriteHeader: the first call sends the status line with
\* the headers set so far; later calls are ignored.
WriterWriteHeader(h, code) ==
  IF h.w.wroteHeader THEN h
  ELSE [h EXCEPT !.w.wroteHeader = TRUE, !.w.status = code,
                 !.w.sentHeaders = h.headers]

\* http.ResponseWriter.Write: sends the headers with 200 if none were sent yet.
WriterWrite(h, b) ==
  LET h1 == WriterWriteHeader(h, StatusOK)
  IN  [h1 EXCEPT !.w.body = Append(h1.w.body, b)]

\* ResponseRecorder.WriteHeader
RecorderWriteHeader(h, code) ==
  WriterWriteHeader([h EXCEPT !.recorder.statusCode = code], code)

\* ResponseRecorder.Write
RecorderWrite(h, b) ==
  [h EXCEPT !.recorder.body = b, !.recorder.hasBody = TRUE]

\* http.Error(recorder, message, code)
HTTPError(h, message, code) == RecorderWrite(RecorderWriteHeader(h, code), message)

\* setupHeaders(w, response, requestID)
setupHeaders(h, response, requestID) ==
  [h EXCEPT
     !.headers.version = response.version,
     !.headers.messageType = response.messageType,
     !.headers.identityKey = response.identityKey,
     !.headers.requestID =
        IF response.messageType = "general" THEN requestID ELSE @,
     !.headers.hasRequestID =
        IF response.messageType = "general" THEN TRUE ELSE @,
     !.headers.nonce = IF response.nonce # NoNonce THEN response.nonce ELSE @,
     !.headers.yourNonce =
        IF response.hasYourNonce THEN response.yourNonce ELSE @,
     !.headers.hasYourNonce = IF response.hasYourNonce THEN TRUE ELSE @,
     !.headers.signature =
        IF response.signature # NoSignature THEN response.signature ELSE @]

\* setupContent(w, response): the JSON of the response is written to the
\* recorder.
setupContent(h, response) == RecorderWrite(h, "json")

\* base64.StdEncoding.DecodeString succeeds
validateBase64(requestID) == requestID # NotBase64

\* validateBase64 of the x-bsv-auth-your-nonce header
validateYourNonce(yourNonce) == yourNonce # MalformedNonce

\* isHex(s)
isHex(s) == s # NotHex

\* buildResponsePayload(requestID, status, body): the bytes signed for a
\* general response, as the triple they encode.
buildResponsePayload(requestID, responseStatus, responseBody) ==
  [kind |-> "response", requestID |-> requestID, status |-> responseStatus,
   body |-> responseBody]

\* ------------------------------------------------------------ request slots
NoContext == [set |-> FALSE, identityKey |-> "", requestID |-> ""]

IdleRequest ==
  [pc |-> "idle", entry |-> "", msg |-> NoMessage, session |-> NoSession,
   sessionNonce |-> NoNonce, now |-> 0, continued |-> FALSE,
   response |-> NoResponse, err |-> "", handler |-> "", handlerReq |-> "",
   ctx |-> NoContext, http |-> NewHTTP, cancelled |-> FALSE,
   panicked |-> FALSE]

Init ==
  /\ allowUnauthenticated \in BOOLEAN
  /\ certificateRequirements \in BOOLEAN
  /\ onCertificatesReceived \in BOOLEAN
  /\ nonces = 0
  /\ sessions = <<>>
  /\ identityKeyIndex = <<>>
  /\ clock = 0
  /\ started = 0
  /\ req = [s \in Slots |-> IdleRequest]
  /\ continuations = {}
  /\ accepted = {}
  /\ call = NoCall

\* A finished request leaves its slot before anything else happens: leaving
\* touches no shared state, so no behaviour of the server is lost.
Ready == \A t \in Slots : req[t].pc # "done"
At(s, pc) == req[s].pc = pc /\ Ready

\* A request may arrive while a slot is free and the run's budget lasts.  The
\* slots are interchangeable, so a request takes the first free one.
CanReceive(s) ==
  /\ At(s, "idle")
  /\ \A t \in Slots : t < s => req[t].pc # "idle"
  /\ started < MaxRequests

\* Middleware.Handler, POST /.well-known/auth: the transport's result is
\* dropped and the recorded body is written to the server's writer.
FinishNonGeneral(r) ==
  [r EXCEPT !.pc = "done", !.http = WriterWrite(r.http, r.http.recorder.body)]

\* Dereferencing a nil pointer field of the AuthMessage.
NilPointerDereference ==
  "runtime error: invalid memory address or nil pointer dereference"

\* A panic in the transport: neither the transport nor Middleware.Handler
\* recovers, so the request's goroutine unwinds to net/http, which drops the
\* connection.  Nothing is returned and nothing more is written.
Panic(r) == [r EXCEPT !.pc = "done", !.panicked = TRUE]

\* Middleware.Handler, general request rejected by the transport.
RejectGeneral(r, err) ==
  [r EXCEPT !.pc = "done", !.err = err,
            !.http = HTTPError(r.http, err, StatusUnauthorized)]

\* ------------------------------------------------------------------ inputs
IdentityKeys == ValidKeys \cup {MalformedKey, ""}
InitialNonces == {ClientNonce, ""}
Versions == {AuthVersion, "9.9"}
\* A client signature is named by the key that made it.
Signatures == ValidKeys \cup {"forged"}
YourNonces == (1..nonces) \cup {UnissuedNonce}

\* The requests enumerated differ from a well-formed one in at most one
\* field: the number of fields of a request that deviate.
Deviations(fields) == Cardinality({f \in fields : f[2]})

\* ------------------------------------------------------------ checkHeaders
\* Variant: presence is checked, the form of the values is not.
checkHeadersPresenceOnly(msg) ==
  IF msg.version = "" THEN "missing version header"
  ELSE IF msg.identityKey = "" THEN "missing identity key header"
  ELSE IF msg.nonce = "" THEN "missing nonce header"
  ELSE IF msg.yourNonce = NoNonce THEN "missing your nonce header"
  ELSE IF msg.signature = "" THEN "missing signature header"
  ELSE ""

\* checkHeaders(req): presence of the five auth headers and the form of the
\* two nonces and of the signature, in the code's order ("" is no error).
checkHeaders(msg) ==
  IF msg.version = "" THEN "missing version header"
  ELSE IF msg.identityKey = "" THEN "missing identity key header"
  ELSE IF msg.nonce = "" THEN "missing nonce header"
  ELSE IF ~validateBase64(msg.nonce) THEN "invalid nonce header"
  ELSE IF msg.yourNonce = NoNonce THEN "missing your nonce header"
  ELSE IF ~validateYourNonce(msg.yourNonce) THEN "invalid your nonce header"
  ELSE IF msg.signature = "" THEN "missing signature header"
  ELSE IF ~isHex(msg.signature) THEN "invalid signature header"
  ELSE ""

\* --------------------------------------------------- handleIncomingMessage
\* Variant: dispatch on the message type without the version check.
handleIncomingMessageErrorAnyVersion(msg) ==
  IF msg.messageType \in {"initialResponse", "certificateRequest"}
    THEN "not implemented"
  ELSE IF msg.messageType \notin {"initialRequest", "certificateResponse", "general"}
    THEN "unsupported message type"
  ELSE ""

\* Variant: the client-only message types fall through to the default case.
handleIncomingMessageErrorNoClientCase(msg) ==
  IF msg.version # AuthVersion THEN "unsupported version"
  ELSE IF msg.messageType \notin {"initialRequest", "certificateResponse", "general"}
    THEN "unsupported message type"
  ELSE ""

handleIncomingMessageError(msg) ==
  IF msg.version # AuthVersion THEN "unsupported version"
  ELSE IF msg.messageType \in {"initialResponse", "certificateRequest"}
    THEN "not implemented"
  ELSE IF msg.messageType \notin {"initialRequest", "certificateResponse", "general"}
    THEN "unsupported message type"
  ELSE ""

\* ---------------------------------------------------- handleInitialRequest
\* if msg.IdentityKey == "" && msg.InitialNonce == ""
MissingInitialFields(msg) == msg.identityKey = "" /\ msg.initialNonce = ""

\* authenticated := t.certificateRequirements == nil
InitiallyAuthenticated == ~certificateRequirements

\* Variant: the signature is made for the server's own key as counterparty.
createNonGeneralAuthSignatureForServer(initialNonce, sessionNonce, identityKey) ==
  CreateSignature(ServerIdentityKey,
    [order |-> "peer-server", serverNonce |-> sessionNonce, peerNonce |-> initialNonce],
    [NoData EXCEPT !.kind = "nonces"])

\* createNonGeneralAuthSignature(initialNonce, sessionNonce, identityKey)
createNonGeneralAuthSignature(initialNonce, sessionNonce, identityKey) ==
  CreateSignature(identityKey,
    [order |-> "peer-server", serverNonce |-> sessionNonce, peerNonce |-> initialNonce],
    [NoData EXCEPT !.kind = "nonces"])

\* The rest of handleInitialRequest once the session is stored, then
\* HandleNonGeneralRequest's setupHeaders / setupContent and the middleware.
InitialResponse(r, session) ==
  IF ~PublicKeyFromString(r.msg.identityKey)
    THEN FinishNonGeneral([r EXCEPT !.err = "failed to create signature"])
    ELSE
      LET response ==
            [NoResponse EXCEPT
               !.version = AuthVersion,
               !.messageType = "initialResponse",
               !.identityKey = ServerIdentityKey,
               !.initialNonce = session.sessionNonce,
               !.yourNonce = r.msg.initialNonce,
               !.hasYourNonce = TRUE,
               !.signature = createNonGeneralAuthSignature(
                   r.msg.initialNonce, session.sessionNonce, r.msg.identityKey),
               !.requestedCertificates = certificateRequirements]
          h == setupContent(setupHeaders(r.http, response, r.msg.initialNonce),
                            response)
      IN  FinishNonGeneral([r EXCEPT !.response = response, !.http = h])

\* POST /.well-known/auth with an initialRequest: parse, version check, field
\* check, wallet.CreateNonce.
ReceiveInitialRequest(s) ==
  /\ CanReceive(s)
  /\ \E identityKey \in IdentityKeys, initialNonce \in InitialNonces,
        version \in Versions, cancelled \in BOOLEAN :
       /\ version = AuthVersion \/ (identityKey = "k1" /\ initialNonce = ClientNonce)
       /\ cancelled => /\ version = AuthVersion /\ initialNonce = ClientNonce
                       /\ identityKey \in ValidKeys
       \* The two valid keys are interchangeable: the first to open a session
       \* is called k1.
       /\ identityKey = "k2" =>
            \/ "k1" \in DOMAIN identityKeyIndex
            \/ \E t \in Slots : /\ req[t].pc = "addSession"
                                /\ req[t].msg.identityKey = "k1"
       /\ LET msg == [NoMessage EXCEPT !.messageType = "initialRequest",
                                       !.version = version,
                                       !.identityKey = identityKey,
                                       !.initialNonce = initialNonce]
              r == [IdleRequest EXCEPT !.entry = "auth", !.msg = msg,
                                       !.cancelled = cancelled]
              err == IF handleIncomingMessageError(msg) # ""
                       THEN handleIncomingMessageError(msg)
                     ELSE IF MissingInitialFields(msg)
                       THEN "missing required fields in initial request"
                     ELSE IF WalletAborts(
                               WalletContext(r, "handleInitialRequest.CreateNonce"))
                       THEN "failed to create session nonce"
                     ELSE ""
          IN  IF err # ""
                THEN /\ req' = [req EXCEPT ![s] = FinishNonGeneral([r EXCEPT !.err = err])]
                     /\ UNCHANGED nonces
                ELSE /\ nonces' = CreateNonce
                     /\ req' = [req EXCEPT ![s] =
                                  [r EXCEPT !.pc = "addSession",
                                            !.sessionNonce = CreateNonce]]
  /\ started' = started + 1
  /\ UNCHANGED <<config, call, sessions, identityKeyIndex, clock>>
  /\ UNCHANGED logs

\* handleInitialRequest from the session literal on: time.Now(), AddSession,
\* signature, response.
StoreInitialSession(s) ==
  /\ At(s, "addSession")
  /\ LET r == req[s]
         session == [isAuthenticated |-> InitiallyAuthenticated,
                     sessionNonce |-> r.sessionNonce,
                     peerNonce |-> r.msg.initialNonce,
                     peerIdentityKey |-> r.msg.identityKey,
                     lastUpdate |-> clock + 1]
     IN  /\ clock' = clock + 1
         /\ AddSession(session)
         /\ req' = [req EXCEPT ![s] = InitialResponse([r EXCEPT !.session = session],
                                                      session)]
  /\ UNCHANGED <<config, call, nonces, started>>
  /\ UNCHANGED logs

\* POST /.well-known/auth with a message type only a client receives.
ReceiveClientOnlyMessage(s) ==
  /\ CanReceive(s)
  /\ \E messageType \in {"initialResponse", "certificateRequest"},
        version \in Versions :
       LET msg == [NoMessage EXCEPT !.messageType = messageType,
                                    !.version = version,
                                    !.identityKey = "k1"]
           r == [IdleRequest EXCEPT !.entry = "auth", !.msg = msg,
                                    !.err = handleIncomingMessageError(msg)]
       IN  req' = [req EXCEPT ![s] = FinishNonGeneral(r)]
  /\ started' = started + 1
  /\ UNCHANGED <<config, call, nonces, sessions, identityKeyIndex, clock>>
  /\ UNCHANGED logs

\* POST /.well-known/auth with a body that is not the JSON of an AuthMessage:
\* parseAuthMessage fails and HandleNonGeneralRequest returns its error.
ReceiveUndecodableBody(s) ==
  /\ CanReceive(s)
  /\ req' = [req EXCEPT ![s] =
               FinishNonGeneral([IdleRequest EXCEPT
                                   !.entry = "auth",
                                   !.err = "failed to decode request body"])]
  /\ started' = started + 1
  /\ UNCHANGED <<config, call, nonces, sessions, identityKeyIndex, clock>>
  /\ UNCHANGED logs

\* ----------------------------------------------- handleCertificateResponse
\* The checks of handleCertificateResponse up to the callback, in the code's
\* order; session is GetSession(msg.IdentityKey).  *msg.Signature is read
\* without a nil check.
certificateResponseError(msg, session) ==
  IF ~VerifyNonce(msg.yourNonce) THEN "unable to verify nonce"
  ELSE IF msg.certificates = "nil" THEN "failed to retrieve certificates"
  ELSE IF msg.nonce = "" THEN "failed to retrieve nonce"
  ELSE IF session = NoSession THEN "no session found for identity key"
  ELSE IF msg.signature = "" THEN NilPointerDereference
  ELSE IF ~PublicKeyFromString(session.peerIdentityKey)
    THEN "failed to parse identity key"
  ELSE IF ~VerifySignature(session.peerIdentityKey, msg.signature)
    THEN "unable to verify signature"
  ELSE ""

\* POST /.well-known/auth with a certificateResponse: VerifyNonce, field
\* checks, GetSession by the message's identity key, signature check.  With
\* no callback configured the code sets sessionAuthenticated = true itself.
\* yourNonce, nonce, signature and certificates are pointer fields, nil when
\* the JSON body omits them; *msg.YourNonce is read without a nil check.
ReceiveCertificateResponse(s) ==
  /\ CanReceive(s)
  /\ \E identityKey \in ValidKeys, yourNonce \in YourNonces \cup {NoNonce},
        signature \in Signatures \cup {""},
        certificates \in CertificateLists \cup {"nil"},
        nonce \in {ClientNonce, ""},
        version \in Versions, cancelled \in BOOLEAN :
       \* One deviation, or a wrong version together with an unissued nonce.
       /\ \/ Deviations({<<1, version # AuthVersion>>,
                         <<2, \/ yourNonce = NoNonce
                              \/ yourNonce # GetSessionByIdentityKey(identityKey).sessionNonce>>,
                         <<3, signature # identityKey>>,
                         <<4, certificates # "match">>,
                         <<5, cancelled>>,
                         <<6, nonce # ClientNonce>>}) <= 1
          \/ /\ version # AuthVersion /\ yourNonce = UnissuedNonce
             /\ signature = identityKey /\ certificates = "match"
             /\ ~cancelled /\ nonce = ClientNonce
       /\ signature \in {identityKey, "forged", ""}
       /\ LET msg == [NoMessage EXCEPT !.messageType = "certificateResponse",
                                       !.version = version,
                                       !.identityKey = identityKey,
                                       !.nonce = nonce,
                                       !.yourNonce = yourNonce,
                                       !.signature = signature,
                                       !.certificates = certificates]
              session == GetSessionByIdentityKey(identityKey)
              r == [IdleRequest EXCEPT !.entry = "auth", !.msg = msg,
                                       !.cancelled = cancelled]
              err == IF handleIncomingMessageError(msg) # ""
                       THEN handleIncomingMessageError(msg)
                     ELSE IF msg.yourNonce = NoNonce THEN NilPointerDereference
                     ELSE IF WalletAborts(
                               WalletContext(r, "handleCertificateResponse.VerifyNonce"))
                       THEN "unable to verify nonce"
                     ELSE certificateResponseError(msg, session)
          IN  req' = [req EXCEPT ![s] =
                IF err = NilPointerDereference THEN Panic(r)
                ELSE IF err # "" THEN FinishNonGeneral([r EXCEPT !.err = err])
                ELSE IF onCertificatesReceived
                  THEN [r EXCEPT !.pc = "callback", !.session = session]
                ELSE [r EXCEPT !.pc = "certTouch", !.session = session,
                               !.continued = FALSE]]
  /\ started' = started + 1
  /\ UNCHANGED <<config, call, nonces, sessions, identityKeyIndex, clock>>
  /\ UNCHANGED logs

\* Variant: handleCertificateResponse goes on after a callback that did not
\* call the continuation.
OnCertificatesReceivedGoesOn(s) ==
  /\ At(s, "callback")
  /\ \E next \in BOOLEAN :
       LET r == req[s]
       IN  req' = [req EXCEPT ![s] =
             IF next THEN [r EXCEPT !.pc = "certTouch", !.continued = TRUE]
             ELSE [r EXCEPT !.pc = "certTouch",
                            !.http = RecorderWrite(
                               RecorderWriteHeader(r.http, StatusForbidden),
                               "forbidden")]]
  /\ UNCHANGED <<config, call, nonces, sessions, identityKeyIndex, clock, started>>
  /\ UNCHANGED logs

\* t.onCertificatesReceived(peerKey, certs, req, res, authCallback): the
\* application either calls the continuation or answers by itself (the age
\* verification example: 403 and a message) and returns.
OnCertificatesReceived(s) ==
  /\ At(s, "callback")
  /\ \E next \in BOOLEAN :
       LET r == req[s]
       IN  req' = [req EXCEPT ![s] =
             IF next THEN [r EXCEPT !.pc = "certTouch", !.continued = TRUE]
             ELSE FinishNonGeneral(
                    [r EXCEPT !.http = RecorderWrite(
                        RecorderWriteHeader(r.http, StatusForbidden), "forbidden")])]
  /\ UNCHANGED <<config, call, nonces, sessions, identityKeyIndex, clock, started>>
  /\ UNCHANGED logs

\* Variant: the session copy is time-stamped but its flag is left as fetched.
TouchCertificateSessionKeepsFlag(s) ==
  /\ At(s, "certTouch")
  /\ clock' = clock + 1
  /\ req' = [req EXCEPT ![s].pc = "certUpdate", ![s].now = clock + 1,
                        ![s].session.lastUpdate = clock + 1]
  /\ UNCHANGED <<config, call, nonces, sessions, identityKeyIndex, started>>
  /\ UNCHANGED logs

\* session.IsAuthenticated = true; session.LastUpdate = time.Now()
TouchCertificateSession(s) ==
  /\ At(s, "certTouch")
  /\ clock' = clock + 1
  /\ req' = [req EXCEPT ![s].pc = "certUpdate", ![s].now = clock + 1,
                        ![s].session.isAuthenticated = TRUE,
                        ![s].session.lastUpdate = clock + 1]
  /\ UNCHANGED <<config, call, nonces, sessions, identityKeyIndex, started>>
  /\ UNCHANGED logs

\* The certificateResponse reply: CreateNonce, signature, headers, JSON body.
CertificateReply(r, nonce) ==
  IF ~PublicKeyFromString(r.msg.identityKey)
    THEN FinishNonGeneral([r EXCEPT !.err = "failed to create signature"])
    ELSE
      LET response ==
            [NoResponse EXCEPT
               !.version = AuthVersion,
               !.messageType = "certificateResponse",
               !.identityKey = ServerIdentityKey,
               !.nonce = nonce,
               !.yourNonce = r.session.peerNonce,
               !.hasYourNonce = TRUE,
               !.signature = createNonGeneralAuthSignature(
                   r.msg.initialNonce, r.session.sessionNonce, r.msg.identityKey)]
          h == setupContent(setupHeaders(r.http, response, r.msg.initialNonce),
                            response)
      IN  FinishNonGeneral([r EXCEPT !.response = response, !.http = h])

\* t.sessionManager.UpdateSession(*session), then the reply.
UpdateCertificateSession(s) ==
  /\ At(s, "certUpdate")
  /\ UpdateSession(req[s].session)
  /\ IF WalletAborts(WalletContext(req[s], "handleCertificateResponse.CreateNonce"))
       THEN /\ UNCHANGED nonces
            /\ req' = [req EXCEPT ![s] =
                         FinishNonGeneral([req[s] EXCEPT !.err = "failed to create nonce"])]
       ELSE /\ nonces' = CreateNonce
            /\ req' = [req EXCEPT ![s] = CertificateReply(req[s], CreateNonce)]
  /\ UNCHANGED <<config, call, clock, started>>
  /\ continuations' = IF req[s].continued
                        THEN continuations \cup {req[s].session.sessionNonce}
                        ELSE continuations
  /\ UNCHANGED accepted

\* ---------------------------------------------------- handleGeneralRequest
\* Variant: the mode flag read the wrong way round.
SessionRefusedInverted(session) == ~session.isAuthenticated /\ allowUnauthenticated

\* if !session.IsAuthenticated && !t.allowUnauthenticated
SessionRefused(session) == ~session.isAuthenticated /\ ~allowUnauthenticated

\* Variant: handleGeneralRequest without its wallet.VerifyNonce call.
generalRequestErrorNoNonce(msg, session) ==
  IF session = NoSession THEN "session not found"
  ELSE IF SessionRefused(session)
    THEN IF certificateRequirements THEN "no certificates provided"
         ELSE "session not authenticated"
  ELSE IF ~PublicKeyFromString(session.peerIdentityKey)
    THEN "failed to parse identity key"
  ELSE IF ~VerifySignature(session.peerIdentityKey, msg.signature)
    THEN "unable to verify signature"
  ELSE ""

\* Variant: the signature is verified under the identity key of the request's
\* header instead of the session's peer key.
generalRequestErrorHeaderKey(msg, session) ==
  IF ~VerifyNonce(msg.yourNonce) THEN "unable to verify nonce"
  ELSE IF session = NoSession THEN "session not found"
  ELSE IF SessionRefused(session)
    THEN IF certificateRequirements THEN "no certificates provided"
         ELSE "session not authenticated"
  ELSE IF ~PublicKeyFromString(msg.identityKey)
    THEN "failed to parse identity key"
  ELSE IF ~VerifySignature(msg.identityKey, msg.signature)
    THEN "unable to verify signature"
  ELSE ""

\* The checks of handleGeneralRequest in the code's order; session is
\* GetSession(*msg.YourNonce).
generalRequestError(msg, session) ==
  IF ~VerifyNonce(msg.yourNonce) THEN "unable to verify nonce"
  ELSE IF session = NoSession THEN "session not found"
  ELSE IF SessionRefused(session)
    THEN IF certificateRequirements THEN "no certificates provided"
         ELSE "session not authenticated"
  ELSE IF ~PublicKeyFromString(session.peerIdentityKey)
    THEN "failed to parse identity key"
  ELSE IF ~VerifySignature(session.peerIdentityKey, msg.signature)
    THEN "unable to verify signature"
  ELSE ""

\* Variant: the pass-through taken in every mode.
missingRequestIDAlwaysPasses == ""

\* HandleGeneralRequest when x-bsv-auth-request-id is missing: "" is the
\* pass-through (nil, nil, nil).
missingRequestID == IF allowUnauthenticated THEN "" ELSE "missing request ID"

\* Any request other than POST /.well-known/auth: HandleGeneralRequest
\* (request id, checkHeaders, version) up to the signature check of
\* handleGeneralRequest.
ReceiveGeneralRequest(s) ==
  /\ CanReceive(s)
  /\ \E requestID \in RequestIDs, identityKey \in ValidKeys \cup {""},
        nonce \in {ClientNonce, "", NotBase64},
        yourNonce \in YourNonces \cup {NoNonce, MalformedNonce},
        signature \in Signatures \cup {"", NotHex},
        version \in Versions \cup {""}, cancelled \in BOOLEAN :
       /\ LET peer == GetSessionByNonce(yourNonce).peerIdentityKey
          IN  IF requestID = ""
                THEN /\ identityKey = "k1" /\ signature = "k1"
                     /\ nonce = ClientNonce /\ version = AuthVersion
              ELSE IF peer \notin ValidKeys
                \* yourNonce names no usable session: nothing else deviates,
                \* or the nonce is an unissued one and one header is wrong.
                THEN /\ identityKey = "k1"
                     /\ LET others == Deviations({<<1, version # AuthVersion>>,
                                                  <<3, signature # "k1">>,
                                                  <<5, nonce # ClientNonce>>})
                        IN  \/ others = 0
                            \/ /\ others = 1 /\ signature # "k2"
                               /\ requestID = "rid"
                               /\ yourNonce = UnissuedNonce
                ELSE Deviations({<<1, version # AuthVersion>>,
                                 <<2, identityKey # peer>>,
                                 <<3, signature # peer>>,
                                 <<4, requestID # "rid">>,
                                 <<5, nonce # ClientNonce>>,
                                 <<6, cancelled>>}) <= 1
       /\ requestID = "" => yourNonce = UnissuedNonce
       /\ cancelled => GetSessionByNonce(yourNonce).peerIdentityKey \in ValidKeys
       /\ LET msg == [NoMessage EXCEPT !.messageType = "general",
                                       !.version = version,
                                       !.identityKey = identityKey,
                                       !.nonce = nonce,
                                       !.yourNonce = yourNonce,
                                       !.signature = signature,
                                       !.requestID = requestID]
              session == GetSessionByNonce(yourNonce)
              r == [IdleRequest EXCEPT !.entry = "general", !.msg = msg,
                                       !.cancelled = cancelled]
              err == IF checkHeaders(msg) # "" THEN checkHeaders(msg)
                     ELSE IF handleIncomingMessageError(msg) # ""
                       THEN handleIncomingMessageError(msg)
                     ELSE IF WalletAborts(
                               WalletContext(r, "handleGeneralRequest.VerifyNonce"))
                       THEN "unable to verify nonce"
                     ELSE generalRequestError(msg, session)
          IN  req' = [req EXCEPT ![s] =
                IF requestID = ""
                  THEN IF missingRequestID = ""
                         THEN [r EXCEPT !.pc = "handler"]
                         ELSE RejectGeneral(r, missingRequestID)
                ELSE IF err # ""
                  THEN RejectGeneral(
                         [r EXCEPT !.session = IF checkHeaders(msg) = ""
                                                 /\ version = AuthVersion
                                                 /\ VerifyNonce(yourNonce)
                                               THEN session ELSE NoSession], err)
                ELSE [r EXCEPT !.pc = "generalTouch", !.session = session]]
          /\ accepted' = IF requestID # "" /\ err = ""
                           THEN accepted \cup {yourNonce} ELSE accepted
  /\ started' = started + 1
  /\ UNCHANGED <<config, call, nonces, sessions, identityKeyIndex, clock>>
  /\ UNCHANGED continuations

\* Variant: the write-back copy gets another peerNonce.
TouchGeneralSessionTakesNonce(s) ==
  /\ At(s, "generalTouch")
  /\ clock' = clock + 1
  /\ req' = [req EXCEPT ![s].pc = "generalUpdate", ![s].now = clock + 1,
                        ![s].session.lastUpdate = clock + 1,
                        ![s].session.peerNonce = "other"]
  /\ UNCHANGED <<config, call, nonces, sessions, identityKeyIndex, started>>
  /\ UNCHANGED logs

\* session.LastUpdate = time.Now()
TouchGeneralSession(s) ==
  /\ At(s, "generalTouch")
  /\ clock' = clock + 1
  /\ req' = [req EXCEPT ![s].pc = "generalUpdate", ![s].now = clock + 1,
                        ![s].session.lastUpdate = clock + 1]
  /\ UNCHANGED <<config, call, nonces, sessions, identityKeyIndex, started>>
  /\ UNCHANGED logs

\* Variant: the request is returned without the two context values.
setupContextNoValues(msg) == NoContext

\* Variant: the request's nonce header is stored as the request id.
setupContextFromNonce(msg) ==
  [set |-> TRUE, identityKey |-> msg.identityKey, requestID |-> msg.nonce]

\* setupContext(req, requestData, requestID)
setupContext(msg) ==
  [set |-> TRUE, identityKey |-> msg.identityKey, requestID |-> msg.requestID]

\* t.sessionManager.UpdateSession(*session), CreateNonce, the general
\* response message, then setupContext in HandleGeneralRequest.
UpdateGeneralSession(s) ==
  /\ At(s, "generalUpdate")
  /\ UpdateSession(req[s].session)
  /\ LET r == req[s]
         response == [NoResponse EXCEPT
                        !.version = AuthVersion,
                        !.messageType = "general",
                        !.identityKey = ServerIdentityKey,
                        !.nonce = CreateNonce,
                        !.yourNonce = r.session.peerNonce,
                        !.hasYourNonce = TRUE]
     IN  IF WalletAborts(WalletContext(r, "handleGeneralRequest.CreateNonce"))
           THEN /\ UNCHANGED nonces
                /\ req' = [req EXCEPT ![s] = RejectGeneral(r, "failed to create nonce")]
           ELSE /\ nonces' = CreateNonce
                /\ req' = [req EXCEPT ![s] =
                             [r EXCEPT !.pc = "handler", !.response = response,
                                       !.ctx = setupContext(r.msg)]]
  /\ UNCHANGED <<config, call, clock, started>>
  /\ UNCHANGED logs

\* ------------------------------------------------------ downstream handler
\* The handlers of the repository: mocks.PingHandler (WriteHeader(200), then
\* Write), the examples' pingHandler (Write only), mocks.IndexHandler
\* (WriteHeader(200) only); and an application's handler that writes its
\* body in two slices ("Po", then "ng!"), as two Fprint calls do.
Handlers == {"PingHandler", "pingHandler", "IndexHandler", "twoWrites"}

ServeHandler(h, handler) ==
  IF handler = "PingHandler"
    THEN RecorderWrite(RecorderWriteHeader(h, StatusOK), "Pong!")
  ELSE IF handler = "pingHandler" THEN RecorderWrite(h, "Pong!")
  ELSE IF handler = "twoWrites"
    THEN RecorderWrite(RecorderWrite(h, "Po"), "ng!")
  ELSE RecorderWriteHeader(h, StatusOK)

\* The request Middleware.Handler hands to next.ServeHTTP is the one
\* HandleGeneralRequest returned (req is reassigned): the client's request
\* with the identity context attached, or nil on the pass-through.  The
\* client's own request ("request") is never handed on.
HandlerRequest(r) == IF r.ctx.set THEN "withContext" ELSE "nil"

\* next.ServeHTTP(recorder, req)
ServeHTTP(s) ==
  /\ At(s, "handler")
  /\ \E handler \in Handlers :
       req' = [req EXCEPT ![s].pc = "response", ![s].handler = handler,
                          ![s].handlerReq = HandlerRequest(req[s]),
                          ![s].http = ServeHandler(req[s].http, handler)]
  /\ UNCHANGED <<config, call, nonces, sessions, identityKeyIndex, clock, started>>
  /\ UNCHANGED logs

\* ----------------------------------------------------------- HandleResponse
\* HandleResponse's failures before it creates the nonce.
responseError(ctx, session) ==
  IF ~ctx.set THEN "identity key not found in context"
  ELSE IF session = NoSession THEN "session not found"
  ELSE IF ~validateBase64(ctx.requestID) THEN "failed to decode request ID"
  ELSE ""

\* if t.allowUnauthenticated { return nil }
SkipsSigning == allowUnauthenticated

\* signatureKey := fmt.Sprintf("%s %s", nonce, peerNonce)
responseSignature(ctx, session, nonce, recorder) ==
  CreateSignature(ctx.identityKey,
    [order |-> "server-peer", serverNonce |-> nonce, peerNonce |-> session.peerNonce],
    buildResponsePayload(ctx.requestID, recorder.statusCode, recorder.body))

\* Transport.HandleResponse after the handler returned, then the rest of
\* Middleware.Handler: 500 on error, else the recorded body is written.
HandleResponse(s) ==
  /\ At(s, "response")
  /\ LET r == req[s]
         session == GetSessionByIdentityKey(r.ctx.identityKey)
         aborted == WalletAborts(WalletContext(r, "HandleResponse.CreateNonce"))
         early == IF SkipsSigning THEN ""
                  ELSE IF responseError(r.ctx, session) # ""
                    THEN responseError(r.ctx, session)
                  ELSE IF aborted THEN "failed to create nonce"
                  ELSE ""
         signs == ~SkipsSigning /\ early = ""
         late == IF signs /\ ~PublicKeyFromString(r.ctx.identityKey)
                   THEN "failed to parse identity key" ELSE ""
         err == IF early # "" THEN early ELSE late
         response == [r.response EXCEPT !.signature =
                        responseSignature(r.ctx, session, CreateNonce, r.http.recorder)]
     IN  /\ nonces' = IF signs THEN CreateNonce ELSE nonces
         /\ req' = [req EXCEPT ![s] =
              IF err # ""
                THEN [r EXCEPT !.pc = "done", !.err = err,
                               !.http = HTTPError(r.http, err, StatusInternalServerError)]
              ELSE IF signs
                THEN [r EXCEPT !.pc = "done", !.response = response,
                               !.http = WriterWrite(
                                  setupHeaders(r.http, response, r.ctx.requestID),
                                  r.http.recorder.body)]
              ELSE [r EXCEPT !.pc = "done",
                             !.http = WriterWrite(r.http, r.http.recorder.body)]]
  /\ UNCHANGED <<config, call, sessions, identityKeyIndex, clock, started>>
  /\ UNCHANGED logs

\* The response is complete and the request's goroutine ends.  The slots
\* being interchangeable, the requests still in flight move down to keep the
\* busy slots first.
Complete(s) ==
  /\ req[s].pc = "done"
  /\ req' = [t \in Slots |->
               IF t < s THEN req[t]
               ELSE IF t < MaxInFlight THEN req[t + 1]
               ELSE IdleRequest]
  /\ UNCHANGED <<config, call, nonces, sessions, identityKeyIndex, clock, started>>
  /\ UNCHANGED logs

Next ==
  \E s \in Slots :
    \/ ReceiveInitialRequest(s)
    \/ StoreInitialSession(s)
    \/ ReceiveClientOnlyMessage(s)
    \/ ReceiveUndecodableBody(s)
    \/ ReceiveCertificateResponse(s)
    \/ OnCertificatesReceived(s)
    \/ TouchCertificateSession(s)
    \/ UpdateCertificateSession(s)
    \/ ReceiveGeneralRequest(s)
    \/ TouchGeneralSession(s)
    \/ UpdateGeneralSession(s)
    \/ ServeHTTP(s)
    \/ HandleResponse(s)
    \/ Complete(s)

Spec == Init /\ [][Next]_vars

\* ------------------------------------------------------------- properties
\* A general request that came with a request id and was handed to the
\* downstream handler, i.e. one handleGeneralRequest accepted.
AcceptedGeneral(r) ==
  /\ r.entry = "general"
  /\ r.msg.requestID # ""
  /\ r.pc \in {"generalTouch", "generalUpdate", "handler", "response"}
     \/ (r.pc = "done" /\ r.handler # "")

\* One of the five auth headers of a general request is absent, or a nonce
\* is not base64, or the signature is not hex.
HeaderDefect(msg) ==
  \/ msg.version = ""
  \/ msg.identityKey = ""
  \/ msg.nonce \in {"", NotBase64}
  \/ msg.yourNonce \in {NoNonce, MalformedNonce}
  \/ msg.signature \in {"", NotHex}

\* A general request with a request id that the transport rejected.  The
\* slot is left before any other step, so the session store is still the one
\* the request was checked against.
RejectedGeneral(r) ==
  /\ r.entry = "general"
  /\ r.msg.requestID # ""
  /\ r.pc = "done"
  /\ r.handler = ""

\* C1: a stored session has isAuthenticated = true only if no certificate
\* requirement is configured or the onCertificatesReceived callback invoked
\* its continuation while a certificateResponse for that session was handled.
AuthenticatedOnlyByContinuation ==
  \A n \in DOMAIN sessions :
    sessions[n].isAuthenticated =>
      \/ ~certificateRequirements
      \/ n \in continuations

\* C2: in strict mode the handler runs for a general request only if the
\* session named by its yourNonce exists, is authenticated and its peer key
\* verifies the request signature; a general request for a session that is
\* not authenticated gets "no certificates provided" (certificates required)
\* or "session not authenticated", status 401, and the handler does not run.
StrictModeGate ==
  ~allowUnauthenticated =>
    \A s \in Slots :
      LET r == req[s]
      IN  /\ (r.entry = "general" /\ r.handler # "") =>
               /\ r.msg.yourNonce \in DOMAIN sessions
               /\ sessions[r.msg.yourNonce].isAuthenticated
               /\ r.session.sessionNonce = r.msg.yourNonce
               /\ r.session.isAuthenticated
               /\ VerifySignature(sessions[r.msg.yourNonce].peerIdentityKey,
                                  r.msg.signature)
          /\ (RejectedGeneral(r) /\ r.session # NoSession
                /\ ~r.session.isAuthenticated) =>
               /\ r.err = IF certificateRequirements
                            THEN "no certificates provided"
                            ELSE "session not authenticated"
               /\ r.http.w.status = StatusUnauthorized

\* C2 witness: strict mode answered 401 to a general request for a session
\* that is not authenticated.
StrictModeRefusal ==
  \E s \in Slots :
    /\ ~allowUnauthenticated
    /\ RejectedGeneral(req[s])
    /\ req[s].session # NoSession
    /\ ~req[s].session.isAuthenticated
    /\ req[s].http.w.status = StatusUnauthorized

CertificateAccepted ==
  certificateRequirements =>
    \A s \in Slots :
      LET r == req[s]
      IN  /\ (r.msg.messageType = "certificateResponse" /\ r.pc = "done"
                /\ r.continued) =>
               /\ GetSessionByNonce(r.session.sessionNonce).isAuthenticated
               /\ r.session.sessionNonce \in continuations
          /\ (r.entry = "general" /\ r.pc = "done"
                /\ r.msg.yourNonce \in continuations
                /\ ~r.cancelled
                /\ ~HeaderDefect(r.msg)
                /\ r.msg.version = AuthVersion
                /\ r.msg.requestID = "rid"
                /\ r.msg.signature = GetSessionByNonce(r.msg.yourNonce).peerIdentityKey
                /\ r.msg.identityKey = GetSessionByNonce(r.msg.yourNonce).peerIdentityKey) =>
               /\ r.handler # ""
               /\ r.handlerReq = "withContext"
               /\ r.http.w.status = StatusOK

\* C5 witness: the handshake, the accepted certificates and the general
\* request answered 200.
PingAfterCertificates ==
  \E s \in Slots :
    /\ certificateRequirements /\ onCertificatesReceived
    /\ ~allowUnauthenticated
    /\ req[s].entry = "general" /\ req[s].pc = "done"
    /\ req[s].msg.yourNonce \in continuations
    /\ req[s].handler # ""
    /\ req[s].http.w.status = StatusOK

\* C6: for every session in the store, lookup by its sessionNonce and lookup
\* by its peerIdentityKey return the same record.
BothKeysSameRecord ==
  \A n \in DOMAIN sessions :
    GetSessionByIdentityKey(sessions[n].peerIdentityKey)
      = GetSessionByNonce(sessions[n].sessionNonce)

\* C7: an initialRequest with an empty identityKey or an empty initialNonce
\* is rejected with an error; no nonce is created and no session is added
\* for it.
InitialRequestNeedsBothFields ==
  \A s \in Slots :
    LET r == req[s]
    IN  (r.msg.messageType = "initialRequest"
           /\ (r.msg.identityKey = "" \/ r.msg.initialNonce = "")) =>
          /\ r.pc = "done"
          /\ r.err # ""
          /\ r.sessionNonce = NoNonce
          /\ r.session = NoSession

\* C8: with a certificate requirement configured, a certificateResponse
\* makes its session authenticated only if its certificates match the
\* requirement; an empty or non-matching list never sets isAuthenticated.
OnlyMatchingCertificatesAuthenticate ==
  certificateRequirements =>
    \A s \in Slots :
      LET r == req[s]
      IN  (r.msg.messageType = "certificateResponse" /\ r.pc = "done"
             /\ r.now # 0
             /\ GetSessionByNonce(r.session.sessionNonce).isAuthenticated) =>
            r.msg.certificates = "match"

\* C9: under every configuration, the response to a general request that
\* carried a request id, passed authentication and whose handler returned is
\* delivered with the auth headers version, message-type "general",
\* identity-key, nonce, your-nonce, request-id and a signature over the
\* response payload (requestID, status, body).
GeneralResponseSigned ==
  \A s \in Slots :
    LET r == req[s]
        h == r.http.w.sentHeaders
    IN  (AcceptedGeneral(r) /\ r.pc = "done") =>
          /\ h.version = AuthVersion
          /\ h.messageType = "general"
          /\ h.identityKey = ServerIdentityKey
          /\ h.nonce # NoNonce
          /\ h.hasYourNonce
          /\ h.hasRequestID /\ h.requestID = r.msg.requestID
          /\ h.signature # NoSignature
          /\ h.signature.data =
               buildResponsePayload(r.msg.requestID, r.http.recorder.statusCode,
                                    r.http.recorder.body)

\* C10: in allow-unauthenticated mode a general request without a request id
\* reaches the handler as the client's request with no identity context; no
\* nonce is created for it, no session is read and the response is unsigned.
PassThroughKeepsRequest ==
  \A s \in Slots :
    LET r == req[s]
    IN  (allowUnauthenticated /\ r.entry = "general" /\ r.msg.requestID = ""
           /\ r.handler # "") =>
          /\ r.handlerReq = "request"
          /\ ~r.ctx.set
          /\ r.session = NoSession
          /\ r.response = NoResponse
          /\ r.http.w.sentHeaders = NoHeaders

\* The step in which slot s receives a request.
Receives(s) == req[s].pc = "idle" /\ req'[s].pc # "idle"

\* Neither the session store nor the nonce registry changes in this step.
StoreAndRegistryUnchanged ==
  /\ sessions' = sessions
  /\ identityKeyIndex' = identityKeyIndex
  /\ nonces' = nonces

\* C11: in strict mode a general request without x-bsv-auth-request-id is
\* rejected with "missing request ID" and 401; the handler is not invoked
\* and neither the session store nor the nonce registry changes.
StrictMissingRequestID ==
  [][\A s \in Slots :
       (Receives(s) /\ ~allowUnauthenticated /\ req'[s].entry = "general"
          /\ req'[s].msg.requestID = "") =>
         /\ req'[s].pc = "done"
         /\ req'[s].err = "missing request ID"
         /\ req'[s].http.w.status = StatusUnauthorized
         /\ req'[s].handler = ""
         /\ req'[s].session = NoSession
         /\ StoreAndRegistryUnchanged]_vars

\* C11 witness: strict mode has answered a general request without request
\* id while a session is in the store.
MissingRequestIDRefused ==
  \E s \in Slots :
    /\ ~allowUnauthenticated
    /\ req[s].pc = "done" /\ req[s].entry = "general"
    /\ req[s].msg.requestID = ""
    /\ req[s].err = "missing request ID"
    /\ DOMAIN sessions # {}

\* C12: a message whose version is not "0.1" is rejected with an error on
\* both entry points before any nonce is created or verified and before any
\* session is read or written; store and registry are unchanged.  (On the
\* general entry point the message is one that carries a request id.)
WrongVersionRejectedFirst ==
  [][\A s \in Slots :
       (Receives(s) /\ req'[s].msg.messageType # ""
          /\ req'[s].msg.version # AuthVersion
          /\ (req'[s].entry = "general" => req'[s].msg.requestID # "")) =>
         /\ req'[s].pc = "done"
         /\ req'[s].err = IF req'[s].entry = "general" /\ req'[s].msg.version = ""
                            THEN "missing version header"
                            ELSE "unsupported version"
         /\ req'[s].handler = ""
         /\ req'[s].session = NoSession
         /\ req'[s].sessionNonce = NoNonce
         /\ StoreAndRegistryUnchanged
         /\ clock' = clock]_vars

\* C12 witness: a message with a wrong version and a yourNonce the wallet
\* never issued has been rejected for its version, on either entry point.
WrongVersionBeforeNonce ==
  /\ \E s \in Slots :
       /\ req[s].pc = "done" /\ req[s].entry = "general"
       /\ req[s].msg.version = "9.9" /\ req[s].msg.yourNonce = UnissuedNonce
       /\ req[s].err = "unsupported version"
  /\ DOMAIN sessions # {}

\* C13: a message of type initialResponse or certificateRequest is rejected
\* with "not implemented" (its version being supported), whatever the
\* sessions are, and leaves every session and the nonce registry unchanged.
ClientOnlyMessageNotImplemented ==
  [][\A s \in Slots :
       (Receives(s)
          /\ req'[s].msg.messageType \in {"initialResponse", "certificateRequest"}) =>
         /\ req'[s].pc = "done"
         /\ req'[s].err # ""
         /\ req'[s].msg.version = AuthVersion => req'[s].err = "not implemented"
         /\ req'[s].response = NoResponse
         /\ StoreAndRegistryUnchanged]_vars

\* C13 witness: a client-only message has been rejected while its sender has
\* an authenticated session.
NotImplementedWithSession ==
  \E s \in Slots :
    /\ req[s].pc = "done"
    /\ req[s].msg.messageType \in {"initialResponse", "certificateRequest"}
    /\ req[s].err = "not implemented"
    /\ GetSessionByIdentityKey(req[s].msg.identityKey).isAuthenticated

\* C14: a general request that carries a request id but lacks one of the
\* headers version, identity-key, nonce, your-nonce, signature, or whose
\* nonce or your-nonce is not base64 or whose signature is not hex, is
\* rejected before any nonce is verified and any session is looked up: the
\* registry and the store are unchanged and the handler is not invoked.
HeaderDefectRejectedFirst ==
  [][\A s \in Slots :
       (Receives(s) /\ req'[s].entry = "general"
          /\ req'[s].msg.requestID # "" /\ HeaderDefect(req'[s].msg)) =>
         /\ req'[s].pc = "done"
         /\ req'[s].err \in {"missing version header", "missing identity key header",
                             "missing nonce header", "invalid nonce header",
                             "missing your nonce header", "invalid your nonce header",
                             "missing signature header", "invalid signature header"}
         /\ req'[s].handler = ""
         /\ req'[s].session = NoSession
         /\ StoreAndRegistryUnchanged
         /\ accepted' = accepted]_vars

\* C14 witness: a request with a signature that is not hex and a yourNonce
\* the wallet never issued has been rejected for its signature header.
BadSignatureHeaderBeforeNonce ==
  \E s \in Slots :
    /\ req[s].pc = "done" /\ req[s].entry = "general"
    /\ req[s].msg.signature = NotHex
    /\ req[s].msg.yourNonce = UnissuedNonce
    /\ req[s].err = "invalid signature header"
    /\ DOMAIN sessions # {}

\* The request in slot s, and no other, takes a step from position pc.
StepsFrom(s, pc) ==
  /\ req[s].pc = pc
  /\ req'[s] # req[s]
  /\ \A t \in Slots \ {s} : req'[t] = req[t]

\* C15: when the callback returns without invoking its continuation the
\* session is left as it was (isAuthenticated, lastUpdate), the transport
\* adds no auth header and no body of its own and reports no error: the
\* response is what the callback wrote.
DeclinedCertificatesLeaveSession ==
  [][\A s \in Slots :
       (StepsFrom(s, "callback") /\ ~req'[s].continued) =>
         /\ req'[s].pc = "done"
         /\ req'[s].err = ""
         /\ req'[s].response = NoResponse
         /\ req'[s].session = req[s].session
         /\ req'[s].http.w.sentHeaders = NoHeaders
         /\ req'[s].http.headers = NoHeaders
         /\ req'[s].http.w.status = StatusForbidden
         /\ req'[s].http.w.body = <<"forbidden">>
         /\ StoreAndRegistryUnchanged
         /\ clock' = clock
         /\ continuations' = continuations]_vars

\* C15 witness: a certificateResponse has been answered 403 by the callback
\* and its session is still not authenticated.
CertificatesDeclined ==
  \E s \in Slots :
    /\ req[s].pc = "done"
    /\ req[s].msg.messageType = "certificateResponse"
    /\ req[s].http.w.status = StatusForbidden
    /\ req[s].session # NoSession
    /\ ~GetSessionByNonce(req[s].session.sessionNonce).isAuthenticated

\* The rejections the transport makes for a malformed request: undecodable
\* body, missing fields or headers, ill-formed header values, wrong version.
BadRequestErrors ==
  {"failed to decode request body", "missing required fields in initial request",
   "unsupported version",
   "missing version header", "missing identity key header",
   "missing nonce header", "invalid nonce header",
   "missing your nonce header", "invalid your nonce header",
   "missing signature header", "invalid signature header"}

\* C16: every request rejected as malformed is answered with status 400, on
\* /.well-known/auth and on the general entry point.
BadRequestAnswered400 ==
  \A s \in Slots :
    (req[s].pc = "done" /\ req[s].err \in BadRequestErrors) =>
      req[s].http.w.status = 400

\* The rejections the transport makes for a request it cannot authenticate.
UnauthorizedErrors ==
  {"unable to verify nonce", "unable to verify signature", "session not found",
   "no session found for identity key", "session not authenticated"}

\* C17: every request rejected as unauthenticated before the handler ran is
\* answered with status 401, a certificateResponse on /.well-known/auth
\* included.
UnauthorizedAnswered401 ==
  \A s \in Slots :
    (req[s].pc = "done" /\ req[s].handler = "" /\ req[s].err \in UnauthorizedErrors) =>
      req[s].http.w.status = StatusUnauthorized

\* C18: when the handler has returned and HandleResponse has not run yet,
\* nothing has reached the underlying writer.
RecorderHoldsBack ==
  \A s \in Slots :
    req[s].pc = "response" =>
      /\ ~req[s].http.w.wroteHeader
      /\ req[s].http.w.body = <<>>

\* C19: when signing the response fails the client receives status 500 and
\* nothing of what the handler wrote.
SigningFailureAnswered500 ==
  \A s \in Slots :
    (req[s].pc = "done" /\ req[s].handler # "" /\ req[s].err # "") =>
      /\ req[s].http.w.status = StatusInternalServerError
      /\ req[s].http.w.body = <<>>

\* C20: every authenticated session in the store has a peerIdentityKey that
\* parses as a public key.
AuthenticatedSessionHasValidKey ==
  \A n \in DOMAIN sessions :
    sessions[n].isAuthenticated => PublicKeyFromString(sessions[n].peerIdentityKey)

\* C21: an accepted initialRequest is given a nonce the wallet issues for it,
\* under which its session is stored, and its reply is an initialResponse
\* with yourNonce = the client's initialNonce, initialNonce = that session
\* nonce, the server's identity key and a signature under the key id of
\* (initialNonce, sessionNonce) with the client's key as counterparty.
InitialResponseContent ==
  [][\A s \in Slots :
       /\ (Receives(s) /\ req'[s].pc = "addSession") =>
            /\ nonces' = nonces + 1
            /\ req'[s].sessionNonce = nonces'
            /\ req'[s].sessionNonce \notin DOMAIN sessions
       /\ (StepsFrom(s, "addSession") /\ req'[s].err = "") =>
            LET r == req[s]
                q == req'[s]
            IN  /\ q.pc = "done"
                /\ q.response.version = AuthVersion
                /\ q.response.messageType = "initialResponse"
                /\ q.response.hasYourNonce
                /\ q.response.yourNonce = r.msg.initialNonce
                /\ q.response.initialNonce = r.sessionNonce
                /\ r.sessionNonce \in DOMAIN sessions' \ DOMAIN sessions
                /\ sessions'[r.sessionNonce].sessionNonce = r.sessionNonce
                /\ sessions'[r.sessionNonce].peerNonce = r.msg.initialNonce
                /\ q.response.identityKey = ServerIdentityKey
                /\ q.response.signature.by = ServerIdentityKey
                /\ q.response.signature.counterparty = r.msg.identityKey
                /\ q.response.signature.keyID.peerNonce = r.msg.initialNonce
                /\ q.response.signature.keyID.serverNonce = r.sessionNonce
                /\ q.http.w.status = StatusOK
                /\ q.http.w.body = <<"json">>
                /\ q.http.w.sentHeaders.messageType = "initialResponse"
                /\ q.http.w.sentHeaders.identityKey = ServerIdentityKey
                /\ q.http.w.sentHeaders.yourNonce = r.msg.initialNonce
                /\ q.http.w.sentHeaders.signature = q.response.signature]_vars

\* C21 witness: a second handshake has been answered with an initialResponse
\* that names the session it stored.
SecondInitialResponse ==
  \E s \in Slots :
    /\ req[s].pc = "done"
    /\ req[s].response.messageType = "initialResponse"
    /\ req[s].response.initialNonce > 1
    /\ req[s].response.initialNonce \in DOMAIN sessions
    /\ req[s].response.yourNonce = ClientNonce

\* C22: the response to an accepted general request carries
\* x-bsv-auth-your-nonce = the peerNonce recorded in the session and
\* x-bsv-auth-nonce = the nonce the wallet issued next after the session nonce.
GeneralResponseNonceHeaders ==
  \A s \in Slots :
    LET r == req[s]
    IN  (r.pc = "done" /\ r.entry = "general" /\ r.msg.requestID # ""
           /\ r.handler # "" /\ r.err = "") =>
          /\ r.http.w.sentHeaders.hasYourNonce
          /\ r.http.w.sentHeaders.yourNonce = r.session.peerNonce
          /\ r.http.w.sentHeaders.nonce = r.session.sessionNonce + 1

\* C23 as stated: the x-bsv-auth-request-id header of a general response
\* equals the x-bsv-auth-nonce header of the request it answers.
ResponseRequestIDIsClientNonce ==
  \A s \in Slots :
    (req[s].pc = "done" /\ req[s].http.w.sentHeaders.hasRequestID) =>
      req[s].http.w.sentHeaders.requestID = req[s].msg.nonce

\* C23: the x-bsv-auth-request-id header is set on general responses only, and
\* it is the x-bsv-auth-request-id header of the request being answered.
ResponseRequestIDEchoed ==
  \A s \in Slots :
    LET r == req[s]
    IN  /\ r.http.headers.hasRequestID =>
             /\ r.entry = "general"
             /\ r.http.headers.messageType = "general"
             /\ r.http.headers.requestID = r.msg.requestID
        /\ r.http.w.sentHeaders.hasRequestID =>
             /\ r.entry = "general"
             /\ r.http.w.sentHeaders.requestID = r.msg.requestID
        /\ (r.pc = "done" /\ r.entry = "general" /\ r.handler # "" /\ r.err = ""
              /\ ~SkipsSigning) =>
             r.http.headers.hasRequestID

\* C23 witness: a general response has been sent with the request's id in
\* x-bsv-auth-request-id, the request's nonce header being another value.
RequestIDSentBack ==
  \E s \in Slots :
    /\ req[s].pc = "done"
    /\ req[s].http.w.sentHeaders.hasRequestID
    /\ req[s].http.w.sentHeaders.requestID = "rid"
    /\ req[s].msg.nonce = ClientNonce

\* C24: when the downstream handler is invoked for an authenticated general
\* request, the request it is given carries identityKey and requestID in its
\* context, as the strings of the request's headers; on the
\* allow-unauthenticated pass-through it carries neither.
HandlerContext ==
  \A s \in Slots :
    LET r == req[s]
    IN  (r.pc = "handler" \/ r.handler # "") =>
          IF r.msg.requestID # ""
            THEN /\ r.ctx.set
                 /\ r.ctx.identityKey = r.msg.identityKey
                 /\ r.ctx.identityKey # ""
                 /\ r.ctx.requestID = r.msg.requestID
                 /\ r.handler # "" => r.handlerReq = "withContext"
            ELSE /\ allowUnauthenticated
                 /\ r.ctx = NoContext
                 /\ r.handler # "" => r.handlerReq # "withContext"

\* C24 witness: one handler invocation with the identity context and one on
\* the pass-through, in the same run.
HandlerWithAndWithoutContext ==
  \E s, t \in Slots :
    /\ req[s].handler # "" /\ req[s].ctx.set
    /\ req[s].ctx.identityKey = "k1" /\ req[s].ctx.requestID = "rid"
    /\ req[t].handler # "" /\ req[t].msg.requestID = "" /\ ~req[t].ctx.set

\* C25: the sessionNonce, peerNonce and peerIdentityKey of a stored session
\* never change; the write-back of a certificateResponse or of a general
\* request changes nothing but isAuthenticated and lastUpdate of the one
\* session it names, and adds or removes no session.
SessionKeysImmutable ==
  [][/\ \A n \in DOMAIN sessions :
          /\ n \in DOMAIN sessions'
          /\ sessions'[n].sessionNonce = sessions[n].sessionNonce
          /\ sessions'[n].peerNonce = sessions[n].peerNonce
          /\ sessions'[n].peerIdentityKey = sessions[n].peerIdentityKey
     /\ \A s \in Slots :
          (StepsFrom(s, "certUpdate") \/ StepsFrom(s, "generalUpdate")) =>
            /\ DOMAIN sessions' = DOMAIN sessions
            /\ identityKeyIndex' = identityKeyIndex
            /\ \A n \in DOMAIN sessions :
                 sessions'[n] # sessions[n] => n = req[s].session.sessionNonce]_vars

\* C25 witness: one session has been written back by a certificateResponse
\* and by a general request.
SessionWrittenBackTwice ==
  \E n \in DOMAIN sessions, s \in Slots :
    /\ n \in continuations
    /\ req[s].pc = "handler" /\ req[s].session.sessionNonce = n
    /\ sessions[n].lastUpdate = req[s].now
    /\ sessions[n].peerNonce = ClientNonce

\* C26: a request whose context is cancelled gets no wallet work done: it
\* ends at its first wallet call with a transport error.
CancelledRequestAborted ==
  \A s \in Slots :
    req[s].cancelled => (req[s].pc = "done" /\ req[s].err # "")

\* ======================================================================
\* KeyDeriver (package wallet): DerivePublicKey, DerivePrivateKey,
\* normalizeCounterparty, computeInvoiceNumber.
\*
\* A string is a sequence of runs: a text repeated a number of times.  The
\* texts are single characters and two words that are never spelled out of
\* single characters, so a prefix or a suffix made of a word is decided by
\* the runs at the ends of the sequence.
\* ======================================================================

\* ------------------------------------------------------------------ bounds
\* Runs in a protocol name.
MaxNameRuns == 3

\* ----------------------------------------------------------------- strings
LinkageWord == "specific linkage revelation"
ProtocolWord == "protocol"

Run(text, times) == [text |-> text, times |-> times]

\* Characters in one copy of a text.
Width(text) ==
  IF text = LinkageWord THEN 27 ELSE IF text = ProtocolWord THEN 8 ELSE 1

\* len(s)
RECURSIVE StrLen(_)
StrLen(str) ==
  IF str = <<>> THEN 0
  ELSE Head(str).times * Width(Head(str).text) + StrLen(Tail(str))

\* strings.ToLower
ToLower(str) ==
  [i \in DOMAIN str |-> IF str[i].text = "A" THEN Run("a", str[i].times) ELSE str[i]]

RECURSIVE TrimLeft(_)
TrimLeft(str) ==
  IF str # <<>> /\ Head(str).text = " " THEN TrimLeft(Tail(str)) ELSE str

RECURSIVE TrimRight(_)
TrimRight(str) ==
  IF str # <<>> /\ str[Len(str)].text = " "
    THEN TrimRight(SubSeq(str, 1, Len(str) - 1))
    ELSE str

\* strings.TrimSpace
TrimSpace(str) == TrimRight(TrimLeft(str))

\* strings.HasPrefix(protocolName, "specific linkage revelation ")
HasLinkagePrefix(str) ==
  /\ Len(str) >= 2
  /\ str[1] = Run(LinkageWord, 1)
  /\ str[2].text = " "

\* strings.Contains(protocolName, "  ")
ContainsDoubleSpace(str) ==
  \E i \in DOMAIN str :
    /\ str[i].text = " "
    /\ str[i].times >= 2 \/ (i < Len(str) /\ str[i + 1].text = " ")

\* regexOnlyLettersNumbersSpaces.MatchString: ^[a-z0-9 ]+$
MatchOnlyLettersNumbersSpaces(str) ==
  /\ str # <<>>
  /\ \A i \in DOMAIN str : str[i].text \in {"a", "1", " ", LinkageWord, ProtocolWord}

\* strings.HasSuffix(protocolName, " protocol")
HasProtocolSuffix(str) ==
  /\ Len(str) >= 2
  /\ str[Len(str)] = Run(ProtocolWord, 1)
  /\ str[Len(str) - 1].text = " "

\* fmt.Sprintf("%d-%s-%s", securityLevel, protocolName, keyID)
Sprintf(securityLevel, protocolName, keyID) ==
  <<Run(ToString(securityLevel), 1), Run("-", 1)>> \o protocolName
    \o <<Run("-", 1)>> \o keyID

\* ------------------------------------------------------ secp256k1, reduced
\* The curve group is replaced by the subgroup of order 11 of the integers
\* modulo 23, generated by 2: a private key is a scalar 1..10, a public key
\* a power of the generator.  0 is the nil pointer of either type.
GroupModulus == 23
GroupOrder == 11
Generator == 2
NilKey == 0

Scalars == 1..(GroupOrder - 1)

RECURSIVE Power(_, _)
Power(base, exponent) ==
  IF exponent = 0 THEN 1
  ELSE (base * Power(base, exponent - 1)) % GroupModulus

\* PrivateKey.PubKey()
PubKey(privateKey) == Power(Generator, privateKey)

\* DeriveSharedSecret: the counterparty's point times the own scalar.
DeriveSharedSecret(privateKey, publicKey) == Power(publicKey, privateKey)

\* HMAC-SHA256 of the invoice number under the shared secret, as a scalar.
Sha256HMAC(invoiceNumber, sharedSecret) ==
  (sharedSecret * 7 + StrLen(invoiceNumber) * 3 + Len(invoiceNumber)) % GroupOrder

\* PrivateKey.DeriveChild(pub, invoiceNumber): (d + hmac) mod n
PrivateDeriveChild(privateKey, publicKey, invoiceNumber) ==
  (privateKey
     + Sha256HMAC(invoiceNumber, DeriveSharedSecret(privateKey, publicKey)))
    % GroupOrder

\* PublicKey.DeriveChild(priv, invoiceNumber): P + hmac * G
PublicDeriveChild(publicKey, privateKey, invoiceNumber) ==
  (publicKey
     * Power(Generator,
             Sha256HMAC(invoiceNumber, DeriveSharedSecret(privateKey, publicKey))))
    % GroupModulus

\* -------------------------------------------------------------- KeyDeriver
\* AnyoneKey(): ec.PrivateKeyFromBytes([]byte{1})
AnyoneKey == [priv |-> 1, pub |-> PubKey(1)]

\* NewKeyDeriver(privateKey)
NewKeyDeriver(privateKey) ==
  [rootKey |-> IF privateKey = NilKey THEN AnyoneKey.priv ELSE privateKey]

CounterpartyUninitialized == 0
CounterpartyTypeAnyone == 1
CounterpartyTypeSelf == 2
CounterpartyTypeOther == 3

\* Variant: 'anyone' answered with the deriver's own public key.
normalizeCounterpartyAnyoneIsSelf(kd, counterparty) ==
  IF counterparty.type \in {CounterpartyTypeSelf, CounterpartyTypeAnyone}
    THEN [err |-> "", key |-> PubKey(kd.rootKey)]
  ELSE IF counterparty.type = CounterpartyTypeOther
    THEN IF counterparty.counterparty = NilKey
           THEN [err |-> "counterparty public key required for other", key |-> NilKey]
           ELSE [err |-> "", key |-> counterparty.counterparty]
  ELSE IF counterparty.type = CounterpartyUninitialized
    THEN [err |-> "counterparty type uninitialized", key |-> NilKey]
  ELSE [err |-> "invalid counterparty, must be self, other, or anyone", key |-> NilKey]

\* kd.normalizeCounterparty(counterparty)
normalizeCounterparty(kd, counterparty) ==
  IF counterparty.type = CounterpartyTypeSelf
    THEN [err |-> "", key |-> PubKey(kd.rootKey)]
  ELSE IF counterparty.type = CounterpartyTypeOther
    THEN IF counterparty.counterparty = NilKey
           THEN [err |-> "counterparty public key required for other", key |-> NilKey]
           ELSE [err |-> "", key |-> counterparty.counterparty]
  ELSE IF counterparty.type = CounterpartyTypeAnyone
    THEN [err |-> "", key |-> AnyoneKey.pub]
  ELSE IF counterparty.type = CounterpartyUninitialized
    THEN [err |-> "counterparty type uninitialized", key |-> NilKey]
  ELSE [err |-> "invalid counterparty, must be self, other, or anyone", key |-> NilKey]

InvoiceError(message) == [err |-> message, value |-> <<>>]

\* Variant: the 430-character allowance is given to every protocol name.
computeInvoiceNumberLongNames(protocol, keyID) ==
  LET protocolName == ToLower(TrimSpace(protocol.protocol))
  IN  IF protocol.securityLevel < 0 \/ protocol.securityLevel > 2
        THEN InvoiceError("protocol security level must be 0, 1, or 2")
      ELSE IF StrLen(keyID) > 800
        THEN InvoiceError("key IDs must be 800 characters or less")
      ELSE IF StrLen(keyID) < 1
        THEN InvoiceError("key IDs must be 1 character or more")
      ELSE IF StrLen(protocolName) > 430
        THEN InvoiceError("protocol names must be 400 characters or less")
      ELSE IF StrLen(protocolName) < 5
        THEN InvoiceError("protocol names must be 5 characters or more")
      ELSE IF ContainsDoubleSpace(protocolName)
        THEN InvoiceError("protocol names cannot contain multiple consecutive spaces")
      ELSE IF ~MatchOnlyLettersNumbersSpaces(protocolName)
        THEN InvoiceError("protocol names can only contain letters, numbers and spaces")
      ELSE IF HasProtocolSuffix(protocolName)
        THEN InvoiceError("no need to end your protocol name with protocol")
      ELSE [err |-> "",
            value |-> Sprintf(protocol.securityLevel, protocolName, keyID)]

\* kd.computeInvoiceNumber(protocol, keyID)
computeInvoiceNumber(protocol, keyID) ==
  LET protocolName == ToLower(TrimSpace(protocol.protocol))
  IN  IF protocol.securityLevel < 0 \/ protocol.securityLevel > 2
        THEN InvoiceError("protocol security level must be 0, 1, or 2")
      ELSE IF StrLen(keyID) > 800
        THEN InvoiceError("key IDs must be 800 characters or less")
      ELSE IF StrLen(keyID) < 1
        THEN InvoiceError("key IDs must be 1 character or more")
      ELSE IF StrLen(protocolName) > 400 /\ ~HasLinkagePrefix(protocolName)
        THEN InvoiceError("protocol names must be 400 characters or less")
      ELSE IF StrLen(protocolName) > 400 /\ StrLen(protocolName) > 430
        THEN InvoiceError(
               "specific linkage revelation protocol names must be 430 characters or less")
      ELSE IF StrLen(protocolName) < 5
        THEN InvoiceError("protocol names must be 5 characters or more")
      ELSE IF ContainsDoubleSpace(protocolName)
        THEN InvoiceError("protocol names cannot contain multiple consecutive spaces")
      ELSE IF ~MatchOnlyLettersNumbersSpaces(protocolName)
        THEN InvoiceError("protocol names can only contain letters, numbers and spaces")
      ELSE IF HasProtocolSuffix(protocolName)
        THEN InvoiceError("no need to end your protocol name with protocol")
      ELSE [err |-> "",
            value |-> Sprintf(protocol.securityLevel, protocolName, keyID)]

\* What a derivation returns, with the two intermediate values it computed
\* (NilKey / <<>> when it did not get that far).
NotCalled ==
  [called |-> FALSE, err |-> "", cause |-> "", counterpartyKey |-> NilKey,
   invoiceNumber |-> <<>>, key |-> NilKey]

Derived(err, cause, counterpartyKey, invoiceNumber, key) ==
  [called |-> TRUE, err |-> err, cause |-> cause,
   counterpartyKey |-> counterpartyKey, invoiceNumber |-> invoiceNumber,
   key |-> key]

\* Variant: the own-side derivation is published whatever forSelf is.
DerivePublicKeyAlwaysForSelf(kd, protocol, keyID, counterparty, forSelf) ==
  LET cp == normalizeCounterparty(kd, counterparty)
      invoice == computeInvoiceNumber(protocol, keyID)
  IN  IF cp.err # "" THEN Derived(cp.err, cp.err, NilKey, <<>>, NilKey)
      ELSE IF invoice.err # ""
        THEN Derived("failed to compute invoice number", invoice.err, cp.key,
                     <<>>, NilKey)
      ELSE Derived("", "", cp.key, invoice.value,
                   PubKey(PrivateDeriveChild(kd.rootKey, cp.key, invoice.value)))

\* kd.DerivePublicKey(protocol, keyID, counterparty, forSelf)
DerivePublicKey(kd, protocol, keyID, counterparty, forSelf) ==
  LET cp == normalizeCounterparty(kd, counterparty)
      invoice == computeInvoiceNumber(protocol, keyID)
  IN  IF cp.err # "" THEN Derived(cp.err, cp.err, NilKey, <<>>, NilKey)
      ELSE IF invoice.err # ""
        THEN Derived("failed to compute invoice number", invoice.err, cp.key,
                     <<>>, NilKey)
      ELSE IF forSelf
        THEN Derived("", "", cp.key, invoice.value,
                     PubKey(PrivateDeriveChild(kd.rootKey, cp.key, invoice.value)))
      ELSE Derived("", "", cp.key, invoice.value,
                   PublicDeriveChild(cp.key, kd.rootKey, invoice.value))

\* kd.DerivePrivateKey(protocol, keyID, counterparty)
DerivePrivateKey(kd, protocol, keyID, counterparty) ==
  LET cp == normalizeCounterparty(kd, counterparty)
      invoice == computeInvoiceNumber(protocol, keyID)
  IN  IF cp.err # "" THEN Derived(cp.err, cp.err, NilKey, <<>>, NilKey)
      ELSE IF invoice.err # ""
        THEN Derived(invoice.err, invoice.err, cp.key, <<>>, NilKey)
      ELSE Derived("", "", cp.key, invoice.value,
                   PrivateDeriveChild(kd.rootKey, cp.key, invoice.value))

\* ------------------------------------------------------------------ inputs
\* The runs protocol names are made of.
NameRuns ==
  {Run("a", 1), Run("a", 3), Run("a", 400), Run("a", 402), Run("a", 403),
   Run("A", 1), Run("1", 1), Run(" ", 1), Run(" ", 2), Run("_", 1),
   Run(LinkageWord, 1), Run(ProtocolWord, 1)}

RECURSIVE SeqsUpTo(_, _)
SeqsUpTo(S, n) ==
  IF n = 0 THEN {<<>>}
  ELSE LET shorter == SeqsUpTo(S, n - 1)
       IN  shorter \cup {Append(q, x) : q \in shorter, x \in S}

ProtocolNames == SeqsUpTo(NameRuns, MaxNameRuns)

\* Key ids of 0, 1, 800 and 801 characters.
KeyIDs ==
  {<<>>, <<Run("1", 1)>>, <<Run("a", 400), Run("a", 400)>>,
   <<Run("a", 400), Run("a", 400), Run("1", 1)>>}

SecurityLevels == {-1, 0, 1, 2, 3}

\* wallet.DefaultAuthProtocol and a key id as the transport builds them.
DefaultAuthProtocol ==
  [securityLevel |-> 2,
   protocol |-> <<Run("a", 3), Run(" ", 1), Run("a", 3)>>]
DefaultKeyID == <<Run("1", 1), Run(" ", 1), Run("1", 1)>>

\* Root keys of the deriver (nil: NewKeyDeriver takes the 'anyone' key) and of
\* its peer.
RootKeys == {NilKey, 1, 2, 5}
PeerRootKeys == {1, 2, 7}

\* Counterparty values: the four declared types, an undeclared one, with and
\* without a key.
Counterparties(peerRootKey) ==
  {[type |-> type, counterparty |-> key] :
     type \in CounterpartyUninitialized..(CounterpartyTypeOther + 1),
     key \in {NilKey, PubKey(peerRootKey)}}

\* Either the protocol, the key id and the security level vary and the keys
\* are fixed, or the keys and the counterparty vary around the transport's
\* protocol and key id, with a supported or an unsupported security level.
DeriverCalls ==
  {[fn |-> "KeyDeriver", rootKey |-> 2, peerRootKey |-> 7,
    protocol |-> [securityLevel |-> level, protocol |-> name], keyID |-> keyID,
    counterparty |-> [type |-> CounterpartyTypeOther, counterparty |-> PubKey(7)],
    forSelf |-> FALSE,
    derivedPublic |-> NotCalled, derivedPrivate |-> NotCalled,
    peerDerivedPrivate |-> NotCalled] :
     level \in SecurityLevels, name \in ProtocolNames, keyID \in KeyIDs}
  \cup
  UNION {
    {[fn |-> "KeyDeriver", rootKey |-> rootKey, peerRootKey |-> peerRootKey,
      protocol |-> [DefaultAuthProtocol EXCEPT !.securityLevel = level],
      keyID |-> DefaultKeyID,
      counterparty |-> counterparty, forSelf |-> forSelf,
      derivedPublic |-> NotCalled, derivedPrivate |-> NotCalled,
      peerDerivedPrivate |-> NotCalled] :
       rootKey \in RootKeys, counterparty \in Counterparties(peerRootKey),
       forSelf \in BOOLEAN, level \in {2, 3}} : peerRootKey \in PeerRootKeys}

\* ----------------------------------------------------------- specification
\* The server at rest: the derivations do not touch it.
ServerAtRest ==
  /\ allowUnauthenticated = FALSE
  /\ certificateRequirements = FALSE
  /\ onCertificatesReceived = FALSE
  /\ nonces = 0
  /\ sessions = <<>>
  /\ identityKeyIndex = <<>>
  /\ clock = 0
  /\ started = 0
  /\ req = [s \in Slots |-> IdleRequest]
  /\ continuations = {}
  /\ accepted = {}

DeriverInit ==
  /\ ServerAtRest
  /\ call \in DeriverCalls

\* NewKeyDeriver(rootKey).DerivePublicKey(protocol, keyID, counterparty, forSelf)
CallDerivePublicKey ==
  /\ call.fn = "KeyDeriver"
  /\ ~call.derivedPublic.called
  /\ call' = [call EXCEPT !.derivedPublic =
                DerivePublicKey(NewKeyDeriver(call.rootKey), call.protocol,
                                call.keyID, call.counterparty, call.forSelf)]
  /\ UNCHANGED server

\* NewKeyDeriver(rootKey).DerivePrivateKey(protocol, keyID, counterparty).
\* The three calls are independent of each other; they are made in one
\* order.
CallDerivePrivateKey ==
  /\ call.fn = "KeyDeriver"
  /\ call.derivedPublic.called
  /\ ~call.derivedPrivate.called
  /\ call' = [call EXCEPT !.derivedPrivate =
                DerivePrivateKey(NewKeyDeriver(call.rootKey), call.protocol,
                                 call.keyID, call.counterparty)]
  /\ UNCHANGED server

\* The peer's side: NewKeyDeriver(peerRootKey).DerivePrivateKey(protocol,
\* keyID, other = the first deriver's root public key).
CallPeerDerivePrivateKey ==
  /\ call.fn = "KeyDeriver"
  /\ call.derivedPrivate.called
  /\ ~call.peerDerivedPrivate.called
  /\ call' = [call EXCEPT !.peerDerivedPrivate =
                DerivePrivateKey(
                  NewKeyDeriver(call.peerRootKey), call.protocol, call.keyID,
                  [type |-> CounterpartyTypeOther,
                   counterparty |-> PubKey(NewKeyDeriver(call.rootKey).rootKey)])]
  /\ UNCHANGED server

DeriverNext ==
  \/ CallDerivePublicKey
  \/ CallDerivePrivateKey
  \/ CallPeerDerivePrivateKey

DeriverSpec == DeriverInit /\ [][DeriverNext]_vars

\* The protocol name as computeInvoiceNumber validates it: trimmed, lowercased.
NormalisedName(protocol) == ToLower(TrimSpace(protocol.protocol))

\* The conditions under which an invoice number exists.
ValidInvoiceInputs(protocol, keyID) ==
  LET name == NormalisedName(protocol)
  IN  /\ protocol.securityLevel \in {0, 1, 2}
      /\ StrLen(keyID) >= 1 /\ StrLen(keyID) <= 800
      /\ StrLen(name) >= 5
      /\ StrLen(name) <= (IF HasLinkagePrefix(name) THEN 430 ELSE 400)
      /\ ~ContainsDoubleSpace(name)
      /\ MatchOnlyLettersNumbersSpaces(name)
      /\ ~HasProtocolSuffix(name)

\* The two derivations of the deriver under study.
OwnDerivations == {call.derivedPublic, call.derivedPrivate}

\* C27: once the counterparty is normalised, DerivePrivateKey and
\* DerivePublicKey get an invoice number if and only if the security level is
\* 0, 1 or 2, the key id has 1..800 characters and the trimmed, lowercased
\* protocol name has 5..400 characters (5..430 with the linkage prefix), no
\* doubled space, only lowercase letters, digits and spaces, and no
\* " protocol" suffix; the invoice number is level-name-keyID, and without it
\* an error is returned and no key.
InvoiceNumberIffValid ==
  call.fn = "KeyDeriver" =>
    \A d \in OwnDerivations :
      (d.called /\ d.counterpartyKey # NilKey) =>
        IF ValidInvoiceInputs(call.protocol, call.keyID)
          THEN /\ d.err = ""
               /\ d.invoiceNumber =
                    <<Run(ToString(call.protocol.securityLevel), 1), Run("-", 1)>>
                      \o NormalisedName(call.protocol) \o <<Run("-", 1)>>
                      \o call.keyID
          ELSE /\ d.err # ""
               /\ d.invoiceNumber = <<>>
               /\ d.key = NilKey

\* C27 witness: a private key has been derived under a linkage protocol name
\* of 430 characters and a key id of 800 characters.
LongLinkageNameAccepted ==
  /\ call.fn = "KeyDeriver"
  /\ call.derivedPrivate.called
  /\ call.derivedPrivate.err = ""
  /\ StrLen(NormalisedName(call.protocol)) = 430
  /\ StrLen(call.keyID) = 800

\* The root key the deriver under study works with.
OwnRootKey == IF call.rootKey = NilKey THEN 1 ELSE call.rootKey

\* C28: both derivations normalise the counterparty alike: self is the
\* deriver's own root public key, anyone the public key of scalar 1, other
\* the supplied key; other without a key, the uninitialised type and any
\* other type fail, and then no invoice number is computed and no key
\* returned.
CounterpartyNormalised ==
  call.fn = "KeyDeriver" =>
    \A d \in OwnDerivations :
      d.called =>
        LET type == call.counterparty.type
            supplied == call.counterparty.counterparty
            expected ==
              IF type = CounterpartyTypeSelf THEN Power(Generator, OwnRootKey)
              ELSE IF type = CounterpartyTypeAnyone THEN Power(Generator, 1)
              ELSE IF type = CounterpartyTypeOther THEN supplied
              ELSE NilKey
        IN  IF expected # NilKey
              THEN /\ d.counterpartyKey = expected
                   /\ d.err = "" <=> ValidInvoiceInputs(call.protocol, call.keyID)
              ELSE /\ d.err # ""
                   /\ d.err \in {"counterparty public key required for other",
                                 "counterparty type uninitialized",
                                 "invalid counterparty, must be self, other, or anyone"}
                   /\ d.counterpartyKey = NilKey
                   /\ d.invoiceNumber = <<>>
                   /\ d.key = NilKey

\* C28 witness: both derivations have refused counterparty 'other' without a
\* key, the protocol being one that computeInvoiceNumber would refuse too.
OtherWithoutKeyRefused ==
  /\ call.fn = "KeyDeriver"
  /\ call.counterparty = [type |-> CounterpartyTypeOther, counterparty |-> NilKey]
  /\ call.protocol.securityLevel = 3
  /\ call.derivedPublic.called /\ call.derivedPrivate.called
  /\ call.derivedPublic.err = "counterparty public key required for other"
  /\ call.derivedPrivate.err = "counterparty public key required for other"

\* C29: the public key deriver(A) derives for counterparty other = B's public
\* key with forSelf = false is the public key of the private key deriver(B)
\* derives for counterparty other = A's public key.
DerivationSymmetric ==
  (/\ call.fn = "KeyDeriver"
   /\ call.derivedPublic.called /\ call.peerDerivedPrivate.called
   /\ call.counterparty = [type |-> CounterpartyTypeOther,
                           counterparty |-> Power(Generator, call.peerRootKey)]
   /\ ~call.forSelf
   /\ ValidInvoiceInputs(call.protocol, call.keyID)) =>
    /\ call.derivedPublic.err = ""
    /\ call.peerDerivedPrivate.err = ""
    /\ call.derivedPublic.key = Power(Generator, call.peerDerivedPrivate.key)

\* C29 witness: the two sides, with different root keys, have derived the
\* same public key.
BothSidesDerived ==
  /\ call.fn = "KeyDeriver"
  /\ call.rootKey = 5 /\ call.peerRootKey = 7
  /\ ~call.forSelf
  /\ call.counterparty = [type |-> CounterpartyTypeOther,
                          counterparty |-> Power(Generator, 7)]
  /\ call.derivedPublic.called /\ call.derivedPublic.err = ""
  /\ call.peerDerivedPrivate.called /\ call.peerDerivedPrivate.err = ""
  /\ call.derivedPublic.key = Power(Generator, call.peerDerivedPrivate.key)


\* ============================================================ response payload
\* buildResponsePayload at the level of bytes. A byte is a number in 0..255, a
\* string a sequence of one-character strings.

\* The longest request id drawn, in characters.
MaxRequestIDLen == 4

\* encodeStd of encoding/base64: the alphabet of base64.StdEncoding
Base64Alphabet ==
  <<"A", "B", "C", "D", "E", "F", "G", "H", "I", "J", "K", "L", "M", "N", "O",
    "P", "Q", "R", "S", "T", "U", "V", "W", "X", "Y", "Z", "a", "b", "c", "d",
    "e", "f", "g", "h", "i", "j", "k", "l", "m", "n", "o", "p", "q", "r", "s",
    "t", "u", "v", "w", "x", "y", "z", "0", "1", "2", "3", "4", "5", "6", "7",
    "8", "9", "+", "/">>

\* StdPadding
PadChar == "="

InAlphabet(c) == \E i \in 1..64 : Base64Alphabet[i] = c

\* the six bits a character of the alphabet stands for
Base64Value(c) == (CHOOSE i \in 1..64 : Base64Alphabet[i] = c) - 1

\* base64.StdEncoding.DecodeString skips carriage returns and line feeds
RECURSIVE SkipNewlines(_)
SkipNewlines(s) ==
  IF s = <<>> THEN <<>>
  ELSE IF Head(s) \in {"\r", "\n"} THEN SkipNewlines(Tail(s))
  ELSE <<Head(s)>> \o SkipNewlines(Tail(s))

DecodeError == [err |-> "illegal base64 data", bytes |-> <<>>]

\* One quantum of four characters: three bytes, or two or one when the
\* quantum is the last and ends in padding.
DecodeQuantum(q, last) ==
  LET v1 == Base64Value(q[1])
      v2 == Base64Value(q[2])
      v3 == Base64Value(q[3])
      v4 == Base64Value(q[4])
      b1 == (v1 * 4 + (v2 \div 16)) % 256
      b2 == ((v2 % 16) * 16 + (v3 \div 4)) % 256
      b3 == ((v3 % 4) * 64 + v4) % 256
  IN  IF ~InAlphabet(q[1]) \/ ~InAlphabet(q[2]) THEN DecodeError
      ELSE IF InAlphabet(q[3]) /\ InAlphabet(q[4])
        THEN [err |-> "", bytes |-> <<b1, b2, b3>>]
      ELSE IF last /\ InAlphabet(q[3]) /\ q[4] = PadChar
        THEN [err |-> "", bytes |-> <<b1, b2>>]
      ELSE IF last /\ q[3] = PadChar /\ q[4] = PadChar
        THEN [err |-> "", bytes |-> <<b1>>]
      ELSE DecodeError

RECURSIVE DecodeQuanta(_)
DecodeQuanta(s) ==
  IF s = <<>> THEN [err |-> "", bytes |-> <<>>]
  ELSE IF Len(s) < 4 THEN DecodeError
  ELSE LET first == DecodeQuantum(SubSeq(s, 1, 4), Len(s) = 4)
           rest == DecodeQuanta(SubSeq(s, 5, Len(s)))
       IN  IF first.err # "" \/ rest.err # "" THEN DecodeError
           ELSE [err |-> "", bytes |-> first.bytes \o rest.bytes]

\* base64.StdEncoding.DecodeString(s)
DecodeString(s) == DecodeQuanta(SkipNewlines(s))

\* base64.StdEncoding.EncodeToString(src), the way a client makes a request
\* id from random bytes
RECURSIVE EncodeToString(_)
EncodeToString(src) ==
  LET c(v) == Base64Alphabet[v + 1]
      n == Len(src)
  IN  IF n = 0 THEN <<>>
      ELSE IF n = 1
        THEN <<c(src[1] \div 4), c((src[1] % 4) * 16), PadChar, PadChar>>
      ELSE IF n = 2
        THEN <<c(src[1] \div 4), c((src[1] % 4) * 16 + (src[2] \div 16)),
               c((src[2] % 16) * 4), PadChar>>
      ELSE <<c(src[1] \div 4), c((src[1] % 4) * 16 + (src[2] \div 16)),
             c((src[2] % 16) * 4 + (src[3] \div 64)), c(src[3] % 64)>>
             \o EncodeToString(SubSeq(src, 4, n))

\* n as `width` bytes, least significant first
RECURSIVE LittleEndian(_, _)
LittleEndian(n, width) ==
  IF width = 0 THEN <<>>
  ELSE <<n % 256>> \o LittleEndian(n \div 256, width - 1)

\* the two's complement of a negative n as `width` bytes, least significant
\* first
RECURSIVE LittleEndianNegative(_, _)
LittleEndianNegative(n, width) ==
  IF width = 0 THEN <<>>
  ELSE <<255 - ((-n - 1) % 256)>>
         \o LittleEndianNegative(-(((-n - 1) \div 256) + 1), width - 1)

\* utils.WriteVarIntNum(&writer, n): the bytes written.
WriteVarIntNum(n) ==
  IF n < 0 THEN <<255>> \o LittleEndianNegative(n, 8)
  ELSE IF n < 253 THEN <<n>>
  ELSE IF n < 65536 THEN <<253>> \o LittleEndian(n, 2)
  ELSE <<254>> \o LittleEndian(n, 4)

NoPayload == [called |-> FALSE, err |-> "", bytes |-> <<>>]
Payload(err, bytes) == [called |-> TRUE, err |-> err, bytes |-> bytes]

\* Variant: the length of an empty body is written as 0.
buildResponsePayloadBytesEmptyBodyZero(requestID, responseStatus, responseBody) ==
  LET requestIDBytes == DecodeString(requestID)
  IN  IF requestIDBytes.err # "" THEN Payload("failed to decode request ID", <<>>)
      ELSE Payload("",
             requestIDBytes.bytes \o WriteVarIntNum(responseStatus)
               \o WriteVarIntNum(-1)
               \o WriteVarIntNum(Len(responseBody)) \o responseBody)

\* buildResponsePayload(requestID, responseStatus, responseBody): the bytes it
\* returns. includedHeaders is always empty.
buildResponsePayloadBytes(requestID, responseStatus, responseBody) ==
  LET requestIDBytes == DecodeString(requestID)
      includedHeaders == <<>>
      status == WriteVarIntNum(responseStatus)
      headers == IF Len(includedHeaders) > 0
                   THEN WriteVarIntNum(Len(includedHeaders))
                   ELSE WriteVarIntNum(-1)
      body == IF Len(responseBody) > 0
                THEN WriteVarIntNum(Len(responseBody)) \o responseBody
                ELSE WriteVarIntNum(-1)
  IN  IF requestIDBytes.err # "" THEN Payload("failed to decode request ID", <<>>)
      ELSE Payload("", requestIDBytes.bytes \o status \o headers \o body)

\* ------------------------------------------------------------------ inputs
\* Characters of the alphabet (values 0, 16, 63), the padding, a character
\* outside the alphabet and a line feed.
RequestIDChars == {"A", "Q", "/", PadChar, "!", "\n"}

\* The bytes request ids are encoded from.
RequestIDBytes == {<<>>, <<0>>, <<255>>, <<77, 255>>, <<0, 16, 131>>}

\* One-byte, three-byte and five-byte statuses.
ResponseStatuses == {200, 252, 253, 401, 500, 65536}

\* Empty, short, and with a length of three bytes.
ResponseBodies ==
  {<<>>, <<0>>, <<123, 125>>, [i \in 1..253 |-> 65], [i \in 1..300 |-> 32]}

PayloadCalls ==
  {[fn |-> "buildResponsePayload", requestID |-> requestID,
    encodedFrom |-> <<-1>>, responseStatus |-> responseStatus,
    responseBody |-> responseBody, first |-> NoPayload, second |-> NoPayload] :
     requestID \in SeqsUpTo(RequestIDChars, MaxRequestIDLen),
     responseStatus \in ResponseStatuses, responseBody \in ResponseBodies}
  \cup
  {[fn |-> "buildResponsePayload", requestID |-> EncodeToString(bytes),
    encodedFrom |-> bytes, responseStatus |-> responseStatus,
    responseBody |-> responseBody, first |-> NoPayload, second |-> NoPayload] :
     bytes \in RequestIDBytes,
     responseStatus \in ResponseStatuses, responseBody \in ResponseBodies}

\* ----------------------------------------------------------- specification
PayloadInit ==
  /\ ServerAtRest
  /\ call \in PayloadCalls

\* buildResponsePayload(requestID, responseStatus, responseBody)
CallBuildResponsePayload ==
  /\ call.fn = "buildResponsePayload"
  /\ ~call.first.called
  /\ call' = [call EXCEPT !.first =
                buildResponsePayloadBytes(call.requestID, call.responseStatus,
                                          call.responseBody)]
  /\ UNCHANGED server

\* a second invocation on the same arguments
CallBuildResponsePayloadAgain ==
  /\ call.fn = "buildResponsePayload"
  /\ call.first.called
  /\ ~call.second.called
  /\ call' = [call EXCEPT !.second =
                buildResponsePayloadBytes(call.requestID, call.responseStatus,
                                          call.responseBody)]
  /\ UNCHANGED server

PayloadNext ==
  \/ CallBuildResponsePayload
  \/ CallBuildResponsePayloadAgain

PayloadSpec == PayloadInit /\ [][PayloadNext]_vars

\* The request id without its line breaks.
RequestIDText == SelectSeq(call.requestID, LAMBDA c : c \notin {"\r", "\n"})

\* The number of padding characters the request id ends in.
TrailingPads ==
  LET s == RequestIDText
  IN  Cardinality({i \in 1..Len(s) : \A j \in i..Len(s) : s[j] = "="})

\* The request id is base64 with padding: groups of four characters of the
\* alphabet, the last group ending in no, one or two padding characters.
RequestIDIsBase64 ==
  LET s == RequestIDText
  IN  /\ Len(s) % 4 = 0
      /\ TrailingPads <= 2
      /\ \A i \in 1..(Len(s) - TrailingPads) :
           \E v \in 1..64 : Base64Alphabet[v] = s[i]

\* The bytes the request id stands for: its characters read as one number of
\* six bits each, cut into bytes from the top.
RECURSIVE SixBitNumber(_)
SixBitNumber(s) ==
  IF s = <<>> THEN 0
  ELSE 64 * SixBitNumber(SubSeq(s, 1, Len(s) - 1))
         + ((CHOOSE v \in 1..64 : Base64Alphabet[v] = s[Len(s)]) - 1)

RequestIDDecoded ==
  LET digits == SubSeq(RequestIDText, 1, Len(RequestIDText) - TrailingPads)
      bits == 6 * Len(digits)
      number == SixBitNumber(digits)
  IN  [j \in 1..(bits \div 8) |-> (number \div (2 ^ (bits - 8 * j))) % 256]

\* The number of bytes the compact encoding of n takes.
VarIntWidth(n) == IF n < 0 THEN 9 ELSE IF n < 253 THEN 1 ELSE IF n < 65536 THEN 3 ELSE 5

\* bytes is the compact little-endian encoding of n.
IsVarInt(bytes, n) ==
  /\ Len(bytes) = VarIntWidth(n)
  /\ \/ n = -1 /\ bytes = <<255, 255, 255, 255, 255, 255, 255, 255, 255>>
     \/ n >= 0 /\ n < 253 /\ bytes = <<n>>
     \/ n >= 253 /\ n < 65536 /\ bytes[1] = 253 /\ bytes[2] + 256 * bytes[3] = n
     \/ /\ n >= 65536 /\ bytes[1] = 254
        /\ bytes[2] + 256 * bytes[3] + 65536 * bytes[4] + 16777216 * bytes[5] = n

\* C30: buildResponsePayload fails when the request id is not base64 and
\* otherwise returns the decoded request id, the status as a varint, -1 as a
\* varint for the header count, and -1 as a varint for an empty body or else
\* the body's length as a varint and the body; a request id encoded from given
\* bytes gives these bytes back, and a second call on the same arguments
\* returns the same bytes.
PayloadLayout ==
  call.fn = "buildResponsePayload" =>
    /\ \A r \in {call.first, call.second} :
         r.called =>
           IF RequestIDIsBase64
             THEN LET atStatus == Len(RequestIDDecoded)
                      atHeaders == atStatus + VarIntWidth(call.responseStatus)
                      atBody == atHeaders + 9
                      bodyLength == IF call.responseBody = <<>> THEN -1
                                    ELSE Len(call.responseBody)
                      atContent == atBody + VarIntWidth(bodyLength)
                  IN  /\ r.err = ""
                      /\ Len(r.bytes) =
                           atContent + Len(call.responseBody)
                      /\ SubSeq(r.bytes, 1, atStatus) = RequestIDDecoded
                      /\ IsVarInt(SubSeq(r.bytes, atStatus + 1, atHeaders),
                                  call.responseStatus)
                      /\ IsVarInt(SubSeq(r.bytes, atHeaders + 1, atBody), -1)
                      /\ IsVarInt(SubSeq(r.bytes, atBody + 1, atContent),
                                  bodyLength)
                      /\ SubSeq(r.bytes, atContent + 1, Len(r.bytes)) =
                           call.responseBody
             ELSE r.err # "" /\ r.bytes = <<>>
    /\ (call.first.called /\ call.encodedFrom # <<-1>>) =>
         /\ call.first.err = ""
         /\ SubSeq(call.first.bytes, 1, Len(call.encodedFrom)) = call.encodedFrom
    /\ (call.first.called /\ call.second.called) => call.first = call.second

\* C30 witness: two calls have returned the payload of a 401 response with a
\* two-byte body under a request id of three bytes.
PayloadBuiltTwice ==
  /\ call.fn = "buildResponsePayload"
  /\ call.encodedFrom = <<0, 16, 131>>
  /\ call.responseStatus = 401
  /\ call.responseBody = <<123, 125>>
  /\ call.first.called /\ call.second.called
  /\ call.second.err = ""
  /\ call.second.bytes =
       <<0, 16, 131, 253, 145, 1, 255, 255, 255, 255, 255, 255, 255, 255, 255,
         2, 123, 125>>

\* ======================================================================
\* Transport: identity, nonces and the session store under concurrency.
\* ======================================================================

\* C31: the identity key in the context of the request handed to the handler
\* is the peerIdentityKey of the session that was found by yourNonce and
\* whose key verified the signature.
HandlerIdentityIsSessionPeer ==
  \A s \in Slots :
    (req[s].entry = "general" /\ req[s].ctx.set) =>
      req[s].ctx.identityKey = req[s].session.peerIdentityKey

\* C32: the session a certificateResponse has authenticated is the one whose
\* sessionNonce is the message's yourNonce.
CertificateAuthenticatesNamedSession ==
  \A s \in Slots :
    (/\ req[s].pc = "done"
     /\ req[s].msg.messageType = "certificateResponse"
     /\ req[s].session.isAuthenticated
     /\ req[s].now # 0) =>
      req[s].session.sessionNonce = req[s].msg.yourNonce

\* C33: the server nonce in the key id of a general response's signature is
\* the nonce the response's x-bsv-auth-nonce header is set to.
SignatureNonceIsPublished ==
  \A s \in Slots :
    (/\ req[s].pc = "done"
     /\ req[s].entry = "general"
     /\ req[s].response.signature # NoSignature) =>
      /\ req[s].http.headers.nonce = req[s].response.nonce
      /\ req[s].response.signature.keyID.serverNonce = req[s].http.headers.nonce

\* C34: a stored session that is authenticated stays authenticated.
AuthenticationMonotonic ==
  [][\A n \in DOMAIN sessions :
       sessions[n].isAuthenticated => sessions'[n].isAuthenticated]_vars

\* C35: the lastUpdate of a stored session never decreases.
LastUpdateNeverDecreases ==
  [][\A n \in DOMAIN sessions :
       sessions'[n].lastUpdate >= sessions[n].lastUpdate]_vars

\* C36: an initialRequest that ended with an error has stored no session.
FailedInitialRequestStoresNothing ==
  \A s \in Slots :
    (/\ req[s].pc = "done"
     /\ req[s].msg.messageType = "initialRequest"
     /\ req[s].err # "") =>
      /\ req[s].sessionNonce \notin DOMAIN sessions
      /\ \A k \in DOMAIN identityKeyIndex :
           identityKeyIndex[k] # req[s].sessionNonce

\* C38: the handler has run for a general request with a request id only if
\* that request id is valid base64.
HandlerRunsOnlyWithDecodableRequestID ==
  \A s \in Slots :
    (/\ req[s].entry = "general"
     /\ req[s].msg.requestID # ""
     /\ req[s].handler # "") =>
      req[s].msg.requestID # NotBase64

\* C37: a certificateResponse without yourNonce, signature, nonce or
\* certificates ends with an error the transport returned, not with a panic.
IncompleteCertificateResponseGetsError ==
  \A s \in Slots :
    (/\ req[s].pc = "done"
     /\ req[s].msg.messageType = "certificateResponse"
     /\ \/ req[s].msg.yourNonce = NoNonce
        \/ req[s].msg.signature = ""
        \/ req[s].msg.nonce = ""
        \/ req[s].msg.certificates = "nil") =>
      /\ ~req[s].panicked
      /\ req[s].err # ""

\* The slices a handler writes, in order.
HandlerWrites(handler) ==
  IF handler \in {"PingHandler", "pingHandler"} THEN <<"Pong!">>
  ELSE IF handler = "twoWrites" THEN <<"Po", "ng!">>
  ELSE <<>>

\* The body a recorder holds, as the slices it is made of.
RecordedBody(recorder) == IF recorder.hasBody THEN <<recorder.body>> ELSE <<>>

\* C39: when the handler has returned, the recorder's body is everything the
\* handler wrote, in order; this is the body signed and sent.
RecordedBodyIsAllWrites ==
  \A s \in Slots :
    (req[s].pc = "response" /\ req[s].handler # "") =>
      RecordedBody(req[s].http.recorder) = HandlerWrites(req[s].handler)

====
